---- MODULE Spec2Model ----
(***************************************************************************)
(* Protocol Buffers wire-format emitter of llvm/Support/Protobuf.h:        *)
(* protobuf::Emitter (low-level, one function per wire type) and           *)
(* protobuf::Builder (one function per protobuf scalar type), writing      *)
(* through an output iterator into a caller-owned byte sink.               *)
(*                                                                         *)
(* Fixed-width integers are bit vectors: a sequence of 0/1 whose element 1 *)
(* is the least significant bit and whose length is the width of the C++   *)
(* type.  A byte of the sink is a number in 0..255.                        *)
(***************************************************************************)
EXTENDS Integers, Sequences, FiniteSets, TLC

\* ------------------------------------------------------------ bit vectors

\* Width of std::uint64_t / std::int64_t, of std::uint32_t / std::int32_t,
\* and of std::uint8_t.
W64 == 64
W32 == 32
W8 == 8

\* The two's complement representation, w bits wide, of the integer n
\* (conversion of an int to a fixed-width type).
RECURSIVE IntToBits(_, _)
IntToBits(n, w) == IF w = 0 THEN <<>> ELSE <<n % 2>> \o IntToBits(n \div 2, w - 1)

\* The number a (short) bit vector stands for when read as unsigned.
RECURSIVE BitsToNat(_)
BitsToNat(v) == IF v = <<>> THEN 0 ELSE v[1] + 2 * BitsToNat(Tail(v))

\* k copies of the bit b.
Fill(k, b) == SubSeq([i \in 1..k |-> b], 1, k)

\* v >> k on an unsigned type, for k up to the width.
ShiftRight(v, k) == SubSeq(v, k + 1, Len(v)) \o Fill(k, 0)

\* v << k on an unsigned type, for k up to the width (the bits shifted out
\* are lost).
ShiftLeft(v, k) == Fill(k, 0) \o SubSeq(v, 1, Len(v) - k)

\* ~v
BitNot(v) == SubSeq([i \in 1..Len(v) |-> 1 - v[i]], 1, Len(v))

\* a & b
BitAnd(a, b) == SubSeq([i \in 1..Len(a) |-> a[i] * b[i]], 1, Len(a))

\* a | b
BitOr(a, b) == SubSeq([i \in 1..Len(a) |-> IF a[i] + b[i] > 0 THEN 1 ELSE 0], 1, Len(a))

\* v == 0
IsZero(v) == \A i \in 1..Len(v) : v[i] = 0

\* a + b on an unsigned type: modulo 2^width.  Carry(i) is the carry out of
\* the i lowest bits.
RECURSIVE AddFrom(_, _, _, _)
AddFrom(a, b, i, carry) ==
  IF i > Len(a) THEN <<>>
  ELSE <<(a[i] + b[i] + carry) % 2>> \o AddFrom(a, b, i + 1, (a[i] + b[i] + carry) \div 2)

Add(a, b) == AddFrom(a, b, 1, 0)

\* Integral conversion (implicit or static_cast) of a value of a type that
\* is signed or not to a type w bits wide: the value modulo 2^w, that is
\* truncation, sign extension of a signed source, zero extension of an
\* unsigned one.
Convert(v, signed, w) ==
  IF w <= Len(v) THEN SubSeq(v, 1, w)
  ELSE v \o Fill(w - Len(v), IF signed /\ Len(v) > 0 THEN v[Len(v)] ELSE 0)

\* Value >= 0 for a signed Value.
NonNegative(v) == v[Len(v)] = 0

\* ------------------------------------------------------- free functions

MinField == 1
MaxField == 536870911

\* enum class WireType : std::uint8_t
VarInt == 0
I64 == 1
LengthDelimited == 2
StartGroup == 3
EndGroup == 4
I32 == 5

\* convertToZigZag with the complement left out: a negative value is only
\* shifted.
convertToZigZag_NoComplement(Value) ==
  ShiftLeft(Convert(Value, TRUE, W64), 1)

\* convertToZigZag with a negative value complemented and not shifted.
convertToZigZag_ComplementOnly(Value) ==
  LET UnsignedValue == Convert(Value, TRUE, W64)
  IN  IF NonNegative(Value)
        THEN ShiftLeft(UnsignedValue, 1)
        ELSE BitNot(UnsignedValue)

\* convertToZigZag as a rotation to the left by one bit.
convertToZigZag_Rotate(Value) ==
  LET UnsignedValue == Convert(Value, TRUE, W64)
  IN  BitOr(ShiftLeft(UnsignedValue, 1), ShiftRight(UnsignedValue, W64 - 1))

\* convertToZigZag(std::int64_t Value)
convertToZigZag(Value) ==
  LET UnsignedValue == Convert(Value, TRUE, W64)
  IN  IF NonNegative(Value)
        THEN ShiftLeft(UnsignedValue, 1)
        ELSE BitNot(ShiftLeft(UnsignedValue, 1))

\* calculateVarIntLength with thresholds of 8 bits per byte.
calculateVarIntLength_EightBits(Value) ==
  IF IsZero(ShiftRight(Value, 8)) THEN 1
  ELSE IF IsZero(ShiftRight(Value, 16)) THEN 2
  ELSE IF IsZero(ShiftRight(Value, 24)) THEN 3
  ELSE IF IsZero(ShiftRight(Value, 32)) THEN 4
  ELSE IF IsZero(ShiftRight(Value, 40)) THEN 5
  ELSE IF IsZero(ShiftRight(Value, 48)) THEN 6
  ELSE IF IsZero(ShiftRight(Value, 56)) THEN 7
  ELSE 8

\* calculateVarIntLength without its last threshold: 9 for every value of
\* 2^56 and more.
calculateVarIntLength_NineBytes(Value) ==
  IF IsZero(ShiftRight(Value, 7)) THEN 1
  ELSE IF IsZero(ShiftRight(Value, 14)) THEN 2
  ELSE IF IsZero(ShiftRight(Value, 21)) THEN 3
  ELSE IF IsZero(ShiftRight(Value, 28)) THEN 4
  ELSE IF IsZero(ShiftRight(Value, 35)) THEN 5
  ELSE IF IsZero(ShiftRight(Value, 42)) THEN 6
  ELSE IF IsZero(ShiftRight(Value, 49)) THEN 7
  ELSE IF IsZero(ShiftRight(Value, 56)) THEN 8
  ELSE 9

\* calculateVarIntLength(std::uint64_t Value)
calculateVarIntLength(Value) ==
  IF IsZero(ShiftRight(Value, 7)) THEN 1
  ELSE IF IsZero(ShiftRight(Value, 14)) THEN 2
  ELSE IF IsZero(ShiftRight(Value, 21)) THEN 3
  ELSE IF IsZero(ShiftRight(Value, 28)) THEN 4
  ELSE IF IsZero(ShiftRight(Value, 35)) THEN 5
  ELSE IF IsZero(ShiftRight(Value, 42)) THEN 6
  ELSE IF IsZero(ShiftRight(Value, 49)) THEN 7
  ELSE IF IsZero(ShiftRight(Value, 56)) THEN 8
  ELSE IF IsZero(ShiftRight(Value, 63)) THEN 9
  ELSE 10

\* ------------------------------------------------------------ C++ types

\* The arithmetic types a call can be instantiated with, and the character
\* data of string / bytes / submessage values.
Types == {"bool", "int16_t", "int32_t", "uint32_t", "int64_t", "uint64_t",
          "float", "double", "string"}

\* std::is_integral_v<T>
is_integral(T) == T \in {"bool", "int16_t", "int32_t", "uint32_t", "int64_t", "uint64_t"}

\* std::is_signed_v<T> for the integral types.
is_signed(T) == T \in {"int16_t", "int32_t", "int64_t"}

\* The number of bits of a value of type T in the model: sizeof(T) * 8 for
\* the integer and floating-point types, the one value bit for bool.
Width(T) ==
  CASE T = "bool" -> 1
    [] T = "int16_t" -> 16
    [] T \in {"int32_t", "uint32_t", "float"} -> W32
    [] T \in {"int64_t", "uint64_t", "double"} -> W64

\* std::numeric_limits<T>::digits for the integral types.
digits(T) == IF is_signed(T) THEN Width(T) - 1 ELSE Width(T)

\* FitsIn<SourceType, DestinationType>: min(Destination) <= min(Source),
\* both as long long, and max(Source) <= max(Destination).  The minimum of
\* an unsigned type is 0 and that of a signed one -2^digits, the maximum is
\* 2^digits - 1.
FitsIn(SourceType, DestinationType) ==
  /\ is_integral(SourceType)
  /\ IF is_signed(DestinationType)
       THEN is_signed(SourceType) => digits(SourceType) <= digits(DestinationType)
       ELSE ~is_signed(SourceType)
  /\ digits(SourceType) <= digits(DestinationType)

\* a <= b for two values of one unsigned type.
UnsignedLessEq(a, b) ==
  LET d == {i \in 1..Len(a) : a[i] # b[i]}
  IN  d = {} \/ b[CHOOSE i \in d : \A j \in d : j <= i] = 1

\* a <= b for two values of one signed type.
SignedLessEq(a, b) ==
  IF a[Len(a)] # b[Len(b)] THEN a[Len(a)] = 1 ELSE UnsignedLessEq(a, b)

\* ---------------------------------------------------------------- state

VARIABLES
  Output,     \* the bytes the output iterator has written to the sink
  Aborted,    \* an assert of the emitter has failed and ended the program
  NDEBUG,     \* the build: TRUE when assert() is compiled out
  BigEndian,  \* the host stores integers most significant byte first
  Op,         \* the Builder function that was called, "none" before the call
  Field,      \* the call's field number (toIntegral(Field), an integer)
  ValueType,  \* the type of the call's value, or of the items of its container
  IsContainer,\* the call's value is a container of items of ValueType
  Value,      \* the call's value: a bit vector, a byte string, or a sequence
  Sink,       \* for each of two further Emitter instances, the bytes of its own sink
  Pending,    \* for each of them, the bytes its running call has still to append
  Alone       \* for each of them, what its calls so far append when run alone

vars == <<Output, Aborted, NDEBUG, BigEndian, Op, Field, ValueType, IsContainer, Value,
          Sink, Pending, Alone>>

\* The two further Emitter instances, and every one of them with no bytes.
Instances == {1, 2}
Empty == [i \in Instances |-> <<>>]

\* The emitter of a Builder whose output iterator is set back to an empty
\* sink at every call.
ThisEmitter_Fresh == [Output |-> <<>>, Aborted |-> Aborted]

\* The emitter as the functions below see it: the sink behind the Output
\* iterator, and whether an assert has ended the program.
ThisEmitter == [Output |-> Output, Aborted |-> Aborted]

\* Emitter(OutputIt Output) over an empty sink.
NewEmitter == [Output |-> <<>>, Aborted |-> FALSE]

\* Put writing before what the sink holds.
Put_Prepend(E, Byte) ==
  IF E.Aborted THEN E ELSE [E EXCEPT !.Output = <<Byte>> \o @]

\* *Output++ = Byte.  Nothing runs once an assert has failed: every
\* function of the emitter leaves an aborted emitter as it is.
Put(E, Byte) == IF E.Aborted THEN E ELSE [E EXCEPT !.Output = Append(@, Byte)]

\* assert(Condition): ends the program unless NDEBUG is defined.
assert(E, Condition) ==
  IF E.Aborted \/ NDEBUG \/ Condition THEN E ELSE [E EXCEPT !.Aborted = TRUE]

\* --------------------------------------------------- Emitter, private part

\* Value & 0b0111'1111 and the continuation bit 0b1000'0000.
PayloadMask == IntToBits(127, W64)
ContinuationBit == IntToBits(128, W8)

\* The step of emitVarIntRaw with the continuation flag decided on the value
\* before its shift.
emitVarIntRawStep_FlagBeforeShift(S) ==
  IF S.Left \/ S.E.Aborted THEN S
  ELSE IF ~(S.BytesEmitted <= 9) THEN [S EXCEPT !.Left = TRUE]
  ELSE LET Low == Convert(BitAnd(S.Value, PayloadMask), FALSE, W8)
           Value1 == ShiftRight(S.Value, 7)
           Payload == BitsToNat(IF ~IsZero(S.Value) THEN BitOr(Low, ContinuationBit) ELSE Low)
           E1 == assert(S.E, S.BytesEmitted < 9 \/ Payload < 128)
       IN  [E |-> Put(E1, Payload),
            Value |-> Value1,
            BytesEmitted |-> IF E1.Aborted THEN S.BytesEmitted ELSE S.BytesEmitted + 1,
            Left |-> ~E1.Aborted /\ IsZero(Value1)]

\* The step of emitVarIntRaw with the loop condition BytesEmitted <= 8: at
\* most nine bytes.
emitVarIntRawStep_NineIterations(S) ==
  IF S.Left \/ S.E.Aborted THEN S
  ELSE IF ~(S.BytesEmitted <= 8) THEN [S EXCEPT !.Left = TRUE]
  ELSE LET Low == Convert(BitAnd(S.Value, PayloadMask), FALSE, W8)
           Value1 == ShiftRight(S.Value, 7)
           Payload == BitsToNat(IF ~IsZero(Value1) THEN BitOr(Low, ContinuationBit) ELSE Low)
           E1 == assert(S.E, S.BytesEmitted < 9 \/ Payload < 128)
       IN  [E |-> Put(E1, Payload),
            Value |-> Value1,
            BytesEmitted |-> IF E1.Aborted THEN S.BytesEmitted ELSE S.BytesEmitted + 1,
            Left |-> ~E1.Aborted /\ IsZero(Value1)]

\* One evaluation of the loop condition of emitVarIntRaw and, when it holds,
\* one run of the loop body.  S holds the emitter and the locals; S.Left
\* says that the loop has been left.
emitVarIntRawStep(S) ==
  IF S.Left \/ S.E.Aborted THEN S
  ELSE IF ~(S.BytesEmitted <= 9) THEN [S EXCEPT !.Left = TRUE]
  ELSE LET Low == Convert(BitAnd(S.Value, PayloadMask), FALSE, W8)
           Value1 == ShiftRight(S.Value, 7)
           Payload == BitsToNat(IF ~IsZero(Value1) THEN BitOr(Low, ContinuationBit) ELSE Low)
           E1 == assert(S.E, S.BytesEmitted < 9 \/ Payload < 128)
       IN  [E |-> Put(E1, Payload),
            Value |-> Value1,
            BytesEmitted |-> IF E1.Aborted THEN S.BytesEmitted ELSE S.BytesEmitted + 1,
            Left |-> ~E1.Aborted /\ IsZero(Value1)]

\* The loop of emitVarIntRaw: the locals when the loop is left.  The loop
\* condition fails at the latest when it is evaluated for the eleventh time.
emitVarIntRawLoop(E, Value0) ==
  LET loop[i \in 0..11] ==
        IF i = 0 THEN [E |-> E, Value |-> Value0, BytesEmitted |-> 0, Left |-> FALSE]
        ELSE emitVarIntRawStep(loop[i - 1])
  IN  loop[11]

\* emitVarIntRaw(std::uint64_t Value)
emitVarIntRaw(E, Value0) ==
  IF E.Aborted THEN E
  ELSE LET R == emitVarIntRawLoop(E, Value0)
       IN  assert(R.E, R.BytesEmitted > 0)

\* The bytes of an object in memory order, which is what
\* reinterpret_cast<const std::byte *>(&Value) reads.
ObjectBytes(v) ==
  LET n == Len(v) \div W8
      Byte(j) == BitsToNat(SubSeq(v, W8 * (j - 1) + 1, W8 * j))
  IN  SubSeq([j \in 1..n |-> IF BigEndian THEN Byte(n + 1 - j) ELSE Byte(j)], 1, n)

\* emitRawBytes(ArrayRef<std::byte> Bytes)
emitRawBytes(E, Bytes) ==
  IF E.Aborted THEN E
  ELSE LET put[i \in 0..Len(Bytes)] == IF i = 0 THEN E ELSE Put(put[i - 1], Bytes[i])
       IN  put[Len(Bytes)]

\* emitTag with the wire type left out of the tag.
emitTag_NoWireType(E, WType, Field0) ==
  IF E.Aborted THEN E
  ELSE LET E1 == assert(E, MinField <= Field0 /\ Field0 <= MaxField)
           Tag == ShiftLeft(IntToBits(Field0, W32), 3)
       IN  emitVarIntRaw(E1, Convert(Tag, FALSE, W64))

\* emitTag with the tag held in 29 bits, the width of a field number.
emitTag_Tag29(E, WType, Field0) ==
  IF E.Aborted THEN E
  ELSE LET E1 == assert(E, MinField <= Field0 /\ Field0 <= MaxField)
           Tag == Add(ShiftLeft(IntToBits(Field0, W32), 3), IntToBits(WType, W32))
       IN  emitVarIntRaw(E1, Convert(Convert(Tag, FALSE, 29), FALSE, W64))

\* emitTag<WType>(std::int64_t Field)
emitTag(E, WType, Field0) ==
  IF E.Aborted THEN E
  ELSE LET E1 == assert(E, MinField <= Field0 /\ Field0 <= MaxField)
           Tag == Add(ShiftLeft(IntToBits(Field0, W32), 3), IntToBits(WType, W32))
       IN  emitVarIntRaw(E1, Convert(Tag, FALSE, W64))

\* ---------------------------------------------------- Emitter, public part

\* emitVarInt(FieldType Field, std::uint64_t Value)
emitVarInt(E, Field0, Value0) ==
  emitVarIntRaw(emitTag(E, VarInt, Field0), Value0)

\* emitSignedVarInt(FieldType Field, std::int64_t Value)
emitSignedVarInt(E, Field0, Value0) ==
  emitVarIntRaw(emitTag(E, VarInt, Field0), convertToZigZag(Value0))

\* emitLen with a length that counts one byte more, as for a terminating
\* zero.
emitLen_OneMore(E, Field0, Value0) ==
  LET E1 == emitTag(E, LengthDelimited, Field0)
      E2 == emitVarIntRaw(E1, IntToBits(Len(Value0) + 1, W64))
  IN  emitRawBytes(E2, Value0)

\* emitLen(FieldType Field, ArrayRef<std::byte> Value); the StringRef
\* overload passes the bytes of the string on.
emitLen(E, Field0, Value0) ==
  LET E1 == emitTag(E, LengthDelimited, Field0)
      E2 == emitVarIntRaw(E1, IntToBits(Len(Value0), W64))
  IN  emitRawBytes(E2, Value0)

\* emitI32 with the tag of the wire type I64.
emitI32_WireI64(E, Field0, Value0) ==
  emitRawBytes(emitTag(E, I64, Field0), ObjectBytes(Value0))

\* emitI32(FieldType Field, std::uint32_t Value)
emitI32(E, Field0, Value0) ==
  emitRawBytes(emitTag(E, I32, Field0), ObjectBytes(Value0))

\* emitI64(FieldType Field, std::uint64_t Value)
emitI64(E, Field0, Value0) ==
  emitRawBytes(emitTag(E, I64, Field0), ObjectBytes(Value0))

\* bit_cast<To>(From): the object representation is kept, and a float or
\* double is held here as its object representation.
bit_cast(Value0) == Value0

\* emitI32(FieldType Field, float Value)
emitI32_float(E, Field0, Value0) == emitI32(E, Field0, bit_cast(Value0))

\* emitI64(FieldType Field, double Value)
emitI64_double(E, Field0, Value0) == emitI64(E, Field0, bit_cast(Value0))

\* calculateVarIntPackedLength with every item taken as unsigned.
calculateVarIntPackedLength_Unsigned(T, Values) ==
  LET sum[i \in 0..Len(Values)] ==
        IF i = 0 THEN 0
        ELSE sum[i - 1] + calculateVarIntLength(Convert(Values[i], FALSE, W64))
  IN  sum[Len(Values)]

\* calculateVarIntPackedLength(ArrayRef<ValueType> Values): an item is
\* converted from ValueType to the std::uint64_t parameter.
calculateVarIntPackedLength(T, Values) ==
  LET sum[i \in 0..Len(Values)] ==
        IF i = 0 THEN 0
        ELSE sum[i - 1] + calculateVarIntLength(Convert(Values[i], is_signed(T), W64))
  IN  sum[Len(Values)]

\* calculateSignedVarIntPackedLength(ArrayRef<ValueType> Values): an item is
\* converted from ValueType to the std::int64_t parameter.
calculateSignedVarIntPackedLength(T, Values) ==
  LET sum[i \in 0..Len(Values)] ==
        IF i = 0 THEN 0
        ELSE sum[i - 1]
             + calculateVarIntLength(convertToZigZag(Convert(Values[i], is_signed(T), W64)))
  IN  sum[Len(Values)]

\* emitVarIntPacked(FieldType Field, ArrayRef<ItemType> Value), and its
\* overload for ArrayRef<bool>, which has the same body.
emitVarIntPacked(E, Field0, T, Value0) ==
  LET E1 == emitTag(E, LengthDelimited, Field0)
      E2 == emitVarIntRaw(E1, IntToBits(calculateVarIntPackedLength(T, Value0), W64))
      f[i \in 0..Len(Value0)] ==
        IF i = 0 THEN E2
        ELSE emitVarIntRaw(f[i - 1], Convert(Value0[i], is_signed(T), W64))
  IN  f[Len(Value0)]

\* emitSignedVarIntPacked with the length of the unsigned packed field.
emitSignedVarIntPacked_UnsignedLength(E, Field0, T, Value0) ==
  LET E1 == emitTag(E, LengthDelimited, Field0)
      E2 == emitVarIntRaw(E1, IntToBits(calculateVarIntPackedLength(T, Value0), W64))
      f[i \in 0..Len(Value0)] ==
        IF i = 0 THEN E2
        ELSE emitVarIntRaw(f[i - 1],
                           convertToZigZag(Convert(Value0[i], is_signed(T), W64)))
  IN  f[Len(Value0)]

\* emitSignedVarIntPacked(FieldType Field, ArrayRef<ValueType> Value)
emitSignedVarIntPacked(E, Field0, T, Value0) ==
  LET E1 == emitTag(E, LengthDelimited, Field0)
      E2 == emitVarIntRaw(E1, IntToBits(calculateSignedVarIntPackedLength(T, Value0), W64))
      f[i \in 0..Len(Value0)] ==
        IF i = 0 THEN E2
        ELSE emitVarIntRaw(f[i - 1],
                           convertToZigZag(Convert(Value0[i], is_signed(T), W64)))
  IN  f[Len(Value0)]

\* emitI32Packed with the number of items as the length.
emitI32Packed_ItemCount(E, Field0, T, Value0) ==
  LET E1 == emitTag(E, LengthDelimited, Field0)
      E2 == emitVarIntRaw(E1, IntToBits(Len(Value0), W64))
      ItemU32(Item) == IF is_integral(T) THEN Convert(Item, is_signed(T), W32)
                       ELSE bit_cast(Item)
      f[i \in 0..Len(Value0)] ==
        IF i = 0 THEN E2 ELSE emitRawBytes(f[i - 1], ObjectBytes(ItemU32(Value0[i])))
  IN  f[Len(Value0)]

\* emitI32Packed(FieldType Field, ArrayRef<ItemType> Value): compiles for an
\* integral ItemType of at most 4 bytes and for float.
emitI32Packed(E, Field0, T, Value0) ==
  LET E1 == emitTag(E, LengthDelimited, Field0)
      E2 == emitVarIntRaw(E1, IntToBits(Len(Value0) * (W32 \div W8), W64))
      ItemU32(Item) == IF is_integral(T) THEN Convert(Item, is_signed(T), W32)
                       ELSE bit_cast(Item)
      f[i \in 0..Len(Value0)] ==
        IF i = 0 THEN E2 ELSE emitRawBytes(f[i - 1], ObjectBytes(ItemU32(Value0[i])))
  IN  f[Len(Value0)]

\* emitI64Packed(FieldType Field, ArrayRef<ValueType> Value): compiles for an
\* integral ValueType of at most 8 bytes and for double.
emitI64Packed(E, Field0, T, Value0) ==
  LET E1 == emitTag(E, LengthDelimited, Field0)
      E2 == emitVarIntRaw(E1, IntToBits(Len(Value0) * (W64 \div W8), W64))
      ItemU64(Item) == IF is_integral(T) THEN Convert(Item, is_signed(T), W64)
                       ELSE bit_cast(Item)
      f[i \in 0..Len(Value0)] ==
        IF i = 0 THEN E2 ELSE emitRawBytes(f[i - 1], ObjectBytes(ItemU64(Value0[i])))
  IN  f[Len(Value0)]

\* std::numeric_limits<std::int32_t>::min() and ::max(), as int.
Int32Min == Fill(W32 - 1, 0) \o <<1>>
Int32Max == Fill(W32 - 1, 1) \o <<0>>

\* min() <= IntValue && IntValue <= max() of emitEnum, for an IntValue of
\* type T with at most 32 value bits.  The usual arithmetic conversions
\* bring both sides of a comparison to unsigned int when T is
\* std::uint32_t and to int otherwise.
FitsIntoInt32(T, IntValue) ==
  IF T = "uint32_t"
    THEN /\ UnsignedLessEq(Convert(Int32Min, TRUE, W32), IntValue)
         /\ UnsignedLessEq(IntValue, Convert(Int32Max, TRUE, W32))
    ELSE /\ SignedLessEq(Int32Min, Convert(IntValue, is_signed(T), W32))
         /\ SignedLessEq(Convert(IntValue, is_signed(T), W32), Int32Max)

\* The static_assert of emitEnum and emitEnumPacked: an integral type with
\* at most 32 value bits (an enum is passed as its underlying type, and one
\* that fits std::int32_t has at most 31).
EnumTypeAccepted(T) == is_integral(T) /\ digits(T) <= W32

\* Emitter::emitEnum(FieldType Field, ValueType &&Value)
Emitter_emitEnum(E, Field0, T, Value0) ==
  LET IntValue == Value0
      E1 == assert(E, FitsIntoInt32(T, IntValue))
  IN  emitVarInt(E1, Field0, Convert(IntValue, is_signed(T), W64))

\* Emitter::emitEnumRepeated(FieldType Field, ValueType &&Value)
Emitter_emitEnumRepeated(E, Field0, T, Value0) ==
  LET f[i \in 0..Len(Value0)] ==
        IF i = 0 THEN E ELSE Emitter_emitEnum(f[i - 1], Field0, T, Value0[i])
  IN  f[Len(Value0)]

\* emitEnumPacked writing nothing for an empty container.
Emitter_emitEnumPacked_SkipEmpty(E, Field0, T, Value0) ==
  IF Value0 = <<>> THEN E
  ELSE LET E1 == emitTag(E, LengthDelimited, Field0)
           E2 == emitVarIntRaw(E1, IntToBits(Len(Value0), W64))
           f[i \in 0..Len(Value0)] ==
             IF i = 0 THEN E2
             ELSE emitVarIntRaw(assert(f[i - 1], FitsIntoInt32(T, Value0[i])),
                                Convert(Value0[i], is_signed(T), W64))
       IN  f[Len(Value0)]

\* Emitter::emitEnumPacked(FieldType Field, ValueType &&Value).  The length
\* written is Value.size().  Line 463 reads toIntegral(Value), the container,
\* which no instantiation accepts; the assert is taken here as the range
\* check of emitEnum on the item of the iteration.
Emitter_emitEnumPacked(E, Field0, T, Value0) ==
  LET E1 == emitTag(E, LengthDelimited, Field0)
      E2 == emitVarIntRaw(E1, IntToBits(Len(Value0), W64))
      f[i \in 0..Len(Value0)] ==
        IF i = 0 THEN E2
        ELSE emitVarIntRaw(assert(f[i - 1], FitsIntoInt32(T, Value0[i])),
                           Convert(Value0[i], is_signed(T), W64))
  IN  f[Len(Value0)]

\* ---------------------------------------------------------------- Builder
\* A singular function takes the value as its parameter type; a Repeated or
\* Packed function takes a container and T, the type of its items.

\* Builder::emitDouble(FieldType Field, double Value)
Builder_emitDouble(E, Field0, Value0) ==
  emitI64_double(E, Field0, Value0)

\* Builder::emitDoubleRepeated(FieldType Field, ArrayRef<double> Value)
Builder_emitDoubleRepeated(E, Field0, T, Value0) ==
  LET f[i \in 0..Len(Value0)] ==
        IF i = 0 THEN E ELSE emitI64_double(f[i - 1], Field0, Value0[i])
  IN  f[Len(Value0)]

\* Builder::emitDoublePacked(FieldType Field, ArrayRef<double> Value)
Builder_emitDoublePacked(E, Field0, T, Value0) ==
  emitI64Packed(E, Field0, T, Value0)

\* Builder::emitFloat(FieldType Field, float Value)
Builder_emitFloat(E, Field0, Value0) ==
  emitI32_float(E, Field0, Value0)

\* Builder::emitFloatRepeated(FieldType Field, ArrayRef<float> Value)
Builder_emitFloatRepeated(E, Field0, T, Value0) ==
  LET f[i \in 0..Len(Value0)] ==
        IF i = 0 THEN E ELSE emitI32_float(f[i - 1], Field0, Value0[i])
  IN  f[Len(Value0)]

\* Builder::emitFloatPacked(FieldType Field, ArrayRef<float> Value)
Builder_emitFloatPacked(E, Field0, T, Value0) ==
  emitI32Packed(E, Field0, T, Value0)

\* emitInt32 with the value taken as unsigned.
Builder_emitInt32_Unsigned(E, Field0, Value0) ==
  emitVarInt(E, Field0, Convert(Value0, FALSE, W64))

\* Builder::emitInt32(FieldType Field, std::int32_t Value)
Builder_emitInt32(E, Field0, Value0) ==
  emitVarInt(E, Field0, Convert(Value0, TRUE, W64))

\* Builder::emitInt32Repeated(FieldType Field, ValueType &&Value)
Builder_emitInt32Repeated(E, Field0, T, Value0) ==
  LET f[i \in 0..Len(Value0)] ==
        IF i = 0 THEN E ELSE emitVarInt(f[i - 1], Field0, Convert(Value0[i], is_signed(T), W64))
  IN  f[Len(Value0)]

\* Builder::emitInt32Packed(FieldType Field, ValueType &&Value)
Builder_emitInt32Packed(E, Field0, T, Value0) ==
  emitVarIntPacked(E, Field0, T, Value0)

\* Builder::emitInt64(FieldType Field, std::int64_t Value)
Builder_emitInt64(E, Field0, Value0) ==
  emitVarInt(E, Field0, Convert(Value0, TRUE, W64))

\* Builder::emitInt64Repeated(FieldType Field, ValueType &&Value)
Builder_emitInt64Repeated(E, Field0, T, Value0) ==
  LET f[i \in 0..Len(Value0)] ==
        IF i = 0 THEN E ELSE emitVarInt(f[i - 1], Field0, Convert(Value0[i], is_signed(T), W64))
  IN  f[Len(Value0)]

\* Builder::emitInt64Packed(FieldType Field, ValueType &&Value)
Builder_emitInt64Packed(E, Field0, T, Value0) ==
  emitVarIntPacked(E, Field0, T, Value0)

\* Builder::emitUInt32 with its value taken as signed.
Builder_emitUInt32_SignExtended(E, Field0, Value0) ==
  emitVarInt(E, Field0, Convert(Value0, TRUE, W64))

\* Builder::emitUInt32(FieldType Field, std::uint32_t Value)
Builder_emitUInt32(E, Field0, Value0) ==
  emitVarInt(E, Field0, Convert(Value0, FALSE, W64))

\* Builder::emitUInt32Repeated(FieldType Field, ValueType &&Value)
Builder_emitUInt32Repeated(E, Field0, T, Value0) ==
  LET f[i \in 0..Len(Value0)] ==
        IF i = 0 THEN E ELSE emitVarInt(f[i - 1], Field0, Convert(Value0[i], is_signed(T), W64))
  IN  f[Len(Value0)]

\* Builder::emitUInt32Packed(FieldType Field, ValueType &&Value)
Builder_emitUInt32Packed(E, Field0, T, Value0) ==
  emitVarIntPacked(E, Field0, T, Value0)

\* Builder::emitUInt64(FieldType Field, std::uint64_t Value)
Builder_emitUInt64(E, Field0, Value0) ==
  emitVarInt(E, Field0, Convert(Value0, FALSE, W64))

\* Builder::emitUInt64Repeated(FieldType Field, ValueType &&Value)
Builder_emitUInt64Repeated(E, Field0, T, Value0) ==
  LET f[i \in 0..Len(Value0)] ==
        IF i = 0 THEN E ELSE emitVarInt(f[i - 1], Field0, Convert(Value0[i], is_signed(T), W64))
  IN  f[Len(Value0)]

\* Builder::emitUInt64Packed(FieldType Field, ValueType &&Value)
Builder_emitUInt64Packed(E, Field0, T, Value0) ==
  emitVarIntPacked(E, Field0, T, Value0)

\* Builder::emitSInt32 with its value taken as unsigned.
Builder_emitSInt32_ZeroExtended(E, Field0, Value0) ==
  emitSignedVarInt(E, Field0, Convert(Value0, FALSE, W64))

\* Builder::emitSInt32(FieldType Field, std::int32_t Value)
Builder_emitSInt32(E, Field0, Value0) ==
  emitSignedVarInt(E, Field0, Convert(Value0, TRUE, W64))

\* Builder::emitSInt32Repeated(FieldType Field, ValueType &&Value)
Builder_emitSInt32Repeated(E, Field0, T, Value0) ==
  LET f[i \in 0..Len(Value0)] ==
        IF i = 0 THEN E ELSE emitSignedVarInt(f[i - 1], Field0, Convert(Value0[i], is_signed(T), W64))
  IN  f[Len(Value0)]

\* Builder::emitSInt32Packed(FieldType Field, ValueType &&Value)
Builder_emitSInt32Packed(E, Field0, T, Value0) ==
  emitSignedVarIntPacked(E, Field0, T, Value0)

\* Builder::emitSInt64(FieldType Field, std::int64_t Value)
Builder_emitSInt64(E, Field0, Value0) ==
  emitSignedVarInt(E, Field0, Convert(Value0, TRUE, W64))

\* Builder::emitSInt64Repeated(FieldType Field, ValueType &&Value)
Builder_emitSInt64Repeated(E, Field0, T, Value0) ==
  LET f[i \in 0..Len(Value0)] ==
        IF i = 0 THEN E ELSE emitSignedVarInt(f[i - 1], Field0, Convert(Value0[i], is_signed(T), W64))
  IN  f[Len(Value0)]

\* Builder::emitSInt64Packed(FieldType Field, ValueType &&Value)
Builder_emitSInt64Packed(E, Field0, T, Value0) ==
  emitSignedVarIntPacked(E, Field0, T, Value0)

\* Builder::emitFixed32(FieldType Field, std::uint32_t Value)
Builder_emitFixed32(E, Field0, Value0) ==
  emitI32(E, Field0, Value0)

\* Builder::emitFixed32Repeated(FieldType Field, ValueType &&Value): overload
\* resolution of emitI32(Field, Item) picks the float overload for a float item.
Builder_emitFixed32Repeated(E, Field0, T, Value0) ==
  LET f[i \in 0..Len(Value0)] ==
        IF i = 0 THEN E
        ELSE IF T = "float" THEN emitI32_float(f[i - 1], Field0, Value0[i])
             ELSE emitI32(f[i - 1], Field0, Value0[i])
  IN  f[Len(Value0)]

\* Builder::emitFixed32Packed(FieldType Field, ValueType &&Value)
Builder_emitFixed32Packed(E, Field0, T, Value0) ==
  emitI32Packed(E, Field0, T, Value0)

\* Builder::emitFixed64(FieldType Field, std::uint64_t Value)
Builder_emitFixed64(E, Field0, Value0) ==
  emitI64(E, Field0, Value0)

\* Builder::emitFixed64Repeated(FieldType Field, ValueType &&Value): overload
\* resolution of emitI64(Field, Item) picks the double overload for a double item.
Builder_emitFixed64Repeated(E, Field0, T, Value0) ==
  LET f[i \in 0..Len(Value0)] ==
        IF i = 0 THEN E
        ELSE IF T = "double" THEN emitI64_double(f[i - 1], Field0, Value0[i])
             ELSE emitI64(f[i - 1], Field0, Value0[i])
  IN  f[Len(Value0)]

\* Builder::emitFixed64Packed(FieldType Field, ValueType &&Value)
Builder_emitFixed64Packed(E, Field0, T, Value0) ==
  emitI64Packed(E, Field0, T, Value0)

\* Builder::emitSFixed32 with its value sign-extended and written as I64.
Builder_emitSFixed32_Wide(E, Field0, Value0) ==
  emitI64(E, Field0, Convert(Value0, TRUE, W64))

\* Builder::emitSFixed32(FieldType Field, std::int32_t Value)
Builder_emitSFixed32(E, Field0, Value0) ==
  emitI32(E, Field0, Convert(Value0, TRUE, W32))

\* Builder::emitSFixed32Repeated(FieldType Field, ValueType &&Value)
Builder_emitSFixed32Repeated(E, Field0, T, Value0) ==
  LET f[i \in 0..Len(Value0)] ==
        IF i = 0 THEN E ELSE emitI32(f[i - 1], Field0, Convert(Value0[i], is_signed(T), W32))
  IN  f[Len(Value0)]

\* Builder::emitSFixed32Packed(FieldType Field, ValueType &&Value)
Builder_emitSFixed32Packed(E, Field0, T, Value0) ==
  emitI32Packed(E, Field0, T, Value0)

\* Builder::emitSFixed64(FieldType Field, std::int64_t Value)
Builder_emitSFixed64(E, Field0, Value0) ==
  emitI64(E, Field0, Convert(Value0, TRUE, W64))

\* Builder::emitSFixed64Repeated(FieldType Field, ValueType &&Value)
Builder_emitSFixed64Repeated(E, Field0, T, Value0) ==
  LET f[i \in 0..Len(Value0)] ==
        IF i = 0 THEN E ELSE emitI64(f[i - 1], Field0, Convert(Value0[i], is_signed(T), W64))
  IN  f[Len(Value0)]

\* Builder::emitSFixed64Packed(FieldType Field, ValueType &&Value)
Builder_emitSFixed64Packed(E, Field0, T, Value0) ==
  emitI64Packed(E, Field0, T, Value0)

\* Builder::emitBool(FieldType Field, bool Value)
Builder_emitBool(E, Field0, Value0) ==
  emitVarInt(E, Field0, Convert(Value0, FALSE, W64))

\* Builder::emitBoolRepeated(FieldType Field, ArrayRef<bool> Value)
Builder_emitBoolRepeated(E, Field0, T, Value0) ==
  LET f[i \in 0..Len(Value0)] ==
        IF i = 0 THEN E ELSE Builder_emitBool(f[i - 1], Field0, Value0[i])
  IN  f[Len(Value0)]

\* Builder::emitBoolPacked(FieldType Field, ArrayRef<bool> Value)
Builder_emitBoolPacked(E, Field0, T, Value0) ==
  emitVarIntPacked(E, Field0, T, Value0)

\* Builder::emitString(FieldType Field, StringRef Value)
Builder_emitString(E, Field0, Value0) ==
  emitLen(E, Field0, Value0)

\* Builder::emitStringRepeated(FieldType Field, ValueType &&Value)
Builder_emitStringRepeated(E, Field0, T, Value0) ==
  LET f[i \in 0..Len(Value0)] ==
        IF i = 0 THEN E ELSE Builder_emitString(f[i - 1], Field0, Value0[i])
  IN  f[Len(Value0)]

\* Builder::emitBytes(FieldType Field, ValueType &&Value), both overloads
Builder_emitBytes(E, Field0, Value0) ==
  emitLen(E, Field0, Value0)

\* Builder::emitBytesRepeated(FieldType Field, ValueType &&Value)
Builder_emitBytesRepeated(E, Field0, T, Value0) ==
  LET f[i \in 0..Len(Value0)] ==
        IF i = 0 THEN E ELSE Builder_emitBytes(f[i - 1], Field0, Value0[i])
  IN  f[Len(Value0)]

\* Builder::emitSubmessage(FieldType Field, ValueType &&Value)
Builder_emitSubmessage(E, Field0, Value0) ==
  Builder_emitBytes(E, Field0, Value0)

\* Builder::emitSubmessageRepeated(FieldType Field, ValueType &&Value)
Builder_emitSubmessageRepeated(E, Field0, T, Value0) ==
  Builder_emitBytesRepeated(E, Field0, T, Value0)

\* Builder::emitEnum(FieldType Field, ValueType &&Value), T the type of Value
Builder_emitEnum(E, Field0, T, Value0) ==
  Emitter_emitEnum(E, Field0, T, Value0)

\* Builder::emitEnumRepeated(FieldType Field, ValueType &&Value)
Builder_emitEnumRepeated(E, Field0, T, Value0) ==
  Emitter_emitEnumRepeated(E, Field0, T, Value0)

\* Builder::emitEnumPacked(FieldType Field, ValueType &&Value)
Builder_emitEnumPacked(E, Field0, T, Value0) ==
  Emitter_emitEnumPacked(E, Field0, T, Value0)

\* ------------------------------------------------------------------ inputs

\* The longest container, and the longest string, a call is given.
MaxLen == 2

\* The field numbers of the calls: Fields::Negative, Zero, One, Big and
\* TooBig of the unit tests, and MaxField.
Fields == {-1, 0, 1, 100000, MaxField, MaxField + 1}

\* The w-bit value 2^k - 1, and the w-bit value 2^k.
Ones(k, w) == Fill(k, 1) \o Fill(w - k, 0)
OneHot(k, w) == Fill(k, 0) \o <<1>> \o Fill(w - k - 1, 0)

\* The values of a w-bit integer type the calls are made with: 2^k - 1 and
\* 2^k for every k that is a multiple of 7 (the largest value of one varint
\* length and the smallest of the next), for k next to the widths 32 and 64,
\* and the complements -2^k and -2^k - 1 for some k; and 65537.
IntValues(w) ==
  LET Around == {k \in 0..w : k % 7 = 0 \/ k \in {1, 31, 32, 33, w - 1, w}}
  IN  {Ones(k, w) : k \in Around} \cup {OneHot(k, w) : k \in Around \ {w}}
        \cup {BitNot(Ones(k, w)) : k \in {1, 7, 14}}
        \cup {BitNot(OneHot(k, w)) : k \in {0, 6}}
        \cup {IntToBits(65537, w)}

\* The values the items of a container are drawn from: 0, 128, -1 (the
\* largest value of an unsigned type) and the smallest value of a signed type.
ItemValues(w) == {Ones(0, w), OneHot(7, w), Ones(w, w), OneHot(w - 1, w)}

\* The object representation of 1.0f (w = 32) and of 1.0 (w = 64).
FloatOne(w) == IF w = W32 THEN ShiftLeft(Ones(7, w), 23) ELSE ShiftLeft(Ones(10, w), 52)

\* Object representations of float and double values: 0.0, 1.0, -2.5, and a
\* pattern whose bytes all differ.
FloatValues(w) ==
  IF w = W32
    THEN {Ones(0, w), ShiftLeft(Ones(7, w), 23),
          BitOr(OneHot(21, w), ShiftLeft(Ones(3, w), 29)),
          IntToBits(16909060, w)}
    ELSE {Ones(0, w), ShiftLeft(Ones(10, w), 52),
          BitOr(OneHot(50, w), ShiftLeft(Ones(2, w), 62)),
          IntToBits(16909060, W32) \o IntToBits(84281096, W32)}

\* The bytes strings are made of.
Chars == {0, 116, 255}

\* All sequences over S of length at most n.
SeqsUpTo(S, n) == UNION {[1..k -> S] : k \in 0..n}

\* The scalar values of type T.
Scalars(T) ==
  CASE T = "bool" -> {<<0>>, <<1>>}
    [] T \in {"float", "double"} -> FloatValues(Width(T))
    [] T = "string" -> SeqsUpTo(Chars, MaxLen)
    [] OTHER -> IntValues(Width(T))

\* The containers of items of type T.
Containers(T) ==
  CASE T = "bool" -> SeqsUpTo({<<0>>, <<1>>}, MaxLen)
    [] T \in {"float", "double"} ->
         SeqsUpTo({Ones(0, Width(T)), FloatOne(Width(T)), IntToBits(16909060, Width(T))},
                  MaxLen)
    [] T = "string" -> SeqsUpTo({<<>>, <<116>>, <<0, 255>>}, MaxLen)
    [] OTHER -> SeqsUpTo(ItemValues(Width(T)), MaxLen)

\* The few values the calls with a field number other than Fields::One are
\* made with: 128 and -1 (or the largest value), and containers of 128s.
FewScalars(T) ==
  CASE T = "bool" -> {<<1>>}
    [] T \in {"float", "double"} -> {IntToBits(16909060, Width(T))}
    [] T = "string" -> {<<116>>}
    [] OTHER -> {OneHot(7, Width(T)), Ones(Width(T), Width(T))}

FewContainers(T) ==
  CASE T = "bool" -> SeqsUpTo({<<1>>}, MaxLen)
    [] T \in {"float", "double"} -> SeqsUpTo({IntToBits(16909060, Width(T))}, MaxLen)
    [] T = "string" -> SeqsUpTo({<<116>>}, MaxLen)
    [] OTHER -> SeqsUpTo({OneHot(7, Width(T))}, MaxLen)

\* ------------------------------------------------------------- behaviour

\* A Builder over an empty sink, in some build on some host, and the
\* arguments of the call that is going to be made on it.  The field number
\* Fields::One comes with every value, the others with a few.
Init ==
  /\ Output = <<>>
  /\ Aborted = FALSE
  /\ Op = "none"
  /\ NDEBUG \in BOOLEAN
  /\ BigEndian \in BOOLEAN
  /\ Field \in Fields
  /\ ValueType \in Types
  /\ IsContainer \in BOOLEAN
  /\ Value \in IF Field = 1
                 THEN IF IsContainer THEN Containers(ValueType) ELSE Scalars(ValueType)
                 ELSE IF IsContainer THEN FewContainers(ValueType)
                                     ELSE FewScalars(ValueType)
  /\ Sink = Empty /\ Pending = Empty /\ Alone = Empty

\* The call of the Builder function Name, which leaves the emitter as E.
Call(Name, E) ==
  /\ Op = "none"
  /\ Op' = Name
  /\ Output' = E.Output
  /\ Aborted' = E.Aborted
  /\ UNCHANGED <<NDEBUG, BigEndian, Field, ValueType, IsContainer, Value>>
  /\ UNCHANGED <<Sink, Pending, Alone>>

\* The call has a scalar argument of type T.
Scalar(T) == ~IsContainer /\ ValueType = T

emitDouble ==
  /\ Scalar("double")
  /\ Call("emitDouble", Builder_emitDouble(ThisEmitter, Field, Value))

emitDoubleRepeated ==
  /\ IsContainer /\ ValueType = "double"
  /\ Call("emitDoubleRepeated", Builder_emitDoubleRepeated(ThisEmitter, Field, ValueType, Value))

emitDoublePacked ==
  /\ IsContainer /\ ValueType = "double"
  /\ Call("emitDoublePacked", Builder_emitDoublePacked(ThisEmitter, Field, ValueType, Value))

emitFloat ==
  /\ Scalar("float")
  /\ Call("emitFloat", Builder_emitFloat(ThisEmitter, Field, Value))

emitFloatRepeated ==
  /\ IsContainer /\ ValueType = "float"
  /\ Call("emitFloatRepeated", Builder_emitFloatRepeated(ThisEmitter, Field, ValueType, Value))

emitFloatPacked ==
  /\ IsContainer /\ ValueType = "float"
  /\ Call("emitFloatPacked", Builder_emitFloatPacked(ThisEmitter, Field, ValueType, Value))

emitInt32 ==
  /\ Scalar("int32_t")
  /\ Call("emitInt32", Builder_emitInt32(ThisEmitter, Field, Value))

emitInt32Repeated ==
  /\ IsContainer /\ FitsIn(ValueType, "int32_t")
  /\ Call("emitInt32Repeated", Builder_emitInt32Repeated(ThisEmitter, Field, ValueType, Value))

emitInt32Packed ==
  /\ IsContainer /\ FitsIn(ValueType, "int32_t")
  /\ Call("emitInt32Packed", Builder_emitInt32Packed(ThisEmitter, Field, ValueType, Value))

emitInt64 ==
  /\ Scalar("int64_t")
  /\ Call("emitInt64", Builder_emitInt64(ThisEmitter, Field, Value))

emitInt64Repeated ==
  /\ IsContainer /\ FitsIn(ValueType, "int64_t")
  /\ Call("emitInt64Repeated", Builder_emitInt64Repeated(ThisEmitter, Field, ValueType, Value))

emitInt64Packed ==
  /\ IsContainer /\ FitsIn(ValueType, "int64_t")
  /\ Call("emitInt64Packed", Builder_emitInt64Packed(ThisEmitter, Field, ValueType, Value))

emitUInt32 ==
  /\ Scalar("uint32_t")
  /\ Call("emitUInt32", Builder_emitUInt32(ThisEmitter, Field, Value))

emitUInt32Repeated ==
  /\ IsContainer /\ FitsIn(ValueType, "uint32_t")
  /\ Call("emitUInt32Repeated", Builder_emitUInt32Repeated(ThisEmitter, Field, ValueType, Value))

emitUInt32Packed ==
  /\ IsContainer /\ FitsIn(ValueType, "uint32_t")
  /\ Call("emitUInt32Packed", Builder_emitUInt32Packed(ThisEmitter, Field, ValueType, Value))

emitUInt64 ==
  /\ Scalar("uint64_t")
  /\ Call("emitUInt64", Builder_emitUInt64(ThisEmitter, Field, Value))

emitUInt64Repeated ==
  /\ IsContainer /\ FitsIn(ValueType, "uint64_t")
  /\ Call("emitUInt64Repeated", Builder_emitUInt64Repeated(ThisEmitter, Field, ValueType, Value))

emitUInt64Packed ==
  /\ IsContainer /\ FitsIn(ValueType, "uint64_t")
  /\ Call("emitUInt64Packed", Builder_emitUInt64Packed(ThisEmitter, Field, ValueType, Value))

emitSInt32 ==
  /\ Scalar("int32_t")
  /\ Call("emitSInt32", Builder_emitSInt32(ThisEmitter, Field, Value))

emitSInt32Repeated ==
  /\ IsContainer /\ FitsIn(ValueType, "int32_t")
  /\ Call("emitSInt32Repeated", Builder_emitSInt32Repeated(ThisEmitter, Field, ValueType, Value))

emitSInt32Packed ==
  /\ IsContainer /\ FitsIn(ValueType, "int32_t")
  /\ Call("emitSInt32Packed", Builder_emitSInt32Packed(ThisEmitter, Field, ValueType, Value))

emitSInt64 ==
  /\ Scalar("int64_t")
  /\ Call("emitSInt64", Builder_emitSInt64(ThisEmitter, Field, Value))

emitSInt64Repeated ==
  /\ IsContainer /\ FitsIn(ValueType, "int64_t")
  /\ Call("emitSInt64Repeated", Builder_emitSInt64Repeated(ThisEmitter, Field, ValueType, Value))

emitSInt64Packed ==
  /\ IsContainer /\ FitsIn(ValueType, "int64_t")
  /\ Call("emitSInt64Packed", Builder_emitSInt64Packed(ThisEmitter, Field, ValueType, Value))

emitFixed32 ==
  /\ Scalar("uint32_t")
  /\ Call("emitFixed32", Builder_emitFixed32(ThisEmitter, Field, Value))

emitFixed32Repeated ==
  /\ IsContainer /\ ValueType \in {"uint32_t", "float"}
  /\ Call("emitFixed32Repeated", Builder_emitFixed32Repeated(ThisEmitter, Field, ValueType, Value))

emitFixed32Packed ==
  /\ IsContainer /\ FitsIn(ValueType, "uint32_t")
  /\ Call("emitFixed32Packed", Builder_emitFixed32Packed(ThisEmitter, Field, ValueType, Value))

emitFixed64 ==
  /\ Scalar("uint64_t")
  /\ Call("emitFixed64", Builder_emitFixed64(ThisEmitter, Field, Value))

emitFixed64Repeated ==
  /\ IsContainer /\ ValueType \in {"uint64_t", "double"}
  /\ Call("emitFixed64Repeated", Builder_emitFixed64Repeated(ThisEmitter, Field, ValueType, Value))

emitFixed64Packed ==
  /\ IsContainer /\ FitsIn(ValueType, "uint64_t")
  /\ Call("emitFixed64Packed", Builder_emitFixed64Packed(ThisEmitter, Field, ValueType, Value))

emitSFixed32 ==
  /\ Scalar("int32_t")
  /\ Call("emitSFixed32", Builder_emitSFixed32(ThisEmitter, Field, Value))

\* Called with items of an integral type; static_cast<std::uint32_t>(Item)
\* of a floating-point item is a conversion by value, left out here.
emitSFixed32Repeated ==
  /\ IsContainer /\ is_integral(ValueType)
  /\ Call("emitSFixed32Repeated", Builder_emitSFixed32Repeated(ThisEmitter, Field, ValueType, Value))

emitSFixed32Packed ==
  /\ IsContainer /\ FitsIn(ValueType, "int32_t")
  /\ Call("emitSFixed32Packed", Builder_emitSFixed32Packed(ThisEmitter, Field, ValueType, Value))

emitSFixed64 ==
  /\ Scalar("int64_t")
  /\ Call("emitSFixed64", Builder_emitSFixed64(ThisEmitter, Field, Value))

emitSFixed64Repeated ==
  /\ IsContainer /\ is_integral(ValueType)
  /\ Call("emitSFixed64Repeated", Builder_emitSFixed64Repeated(ThisEmitter, Field, ValueType, Value))

emitSFixed64Packed ==
  /\ IsContainer /\ FitsIn(ValueType, "int64_t")
  /\ Call("emitSFixed64Packed", Builder_emitSFixed64Packed(ThisEmitter, Field, ValueType, Value))

emitBool ==
  /\ Scalar("bool")
  /\ Call("emitBool", Builder_emitBool(ThisEmitter, Field, Value))

emitBoolRepeated ==
  /\ IsContainer /\ ValueType = "bool"
  /\ Call("emitBoolRepeated", Builder_emitBoolRepeated(ThisEmitter, Field, ValueType, Value))

emitBoolPacked ==
  /\ IsContainer /\ ValueType = "bool"
  /\ Call("emitBoolPacked", Builder_emitBoolPacked(ThisEmitter, Field, ValueType, Value))

emitString ==
  /\ Scalar("string")
  /\ Call("emitString", Builder_emitString(ThisEmitter, Field, Value))

emitStringRepeated ==
  /\ IsContainer /\ ValueType = "string"
  /\ Call("emitStringRepeated", Builder_emitStringRepeated(ThisEmitter, Field, ValueType, Value))

emitBytes ==
  /\ Scalar("string")
  /\ Call("emitBytes", Builder_emitBytes(ThisEmitter, Field, Value))

emitBytesRepeated ==
  /\ IsContainer /\ ValueType = "string"
  /\ Call("emitBytesRepeated", Builder_emitBytesRepeated(ThisEmitter, Field, ValueType, Value))

emitSubmessage ==
  /\ Scalar("string")
  /\ Call("emitSubmessage", Builder_emitSubmessage(ThisEmitter, Field, Value))

emitSubmessageRepeated ==
  /\ IsContainer /\ ValueType = "string"
  /\ Call("emitSubmessageRepeated", Builder_emitSubmessageRepeated(ThisEmitter, Field, ValueType, Value))

emitEnum ==
  /\ ~IsContainer /\ EnumTypeAccepted(ValueType)
  /\ Call("emitEnum", Builder_emitEnum(ThisEmitter, Field, ValueType, Value))

emitEnumRepeated ==
  /\ IsContainer /\ EnumTypeAccepted(ValueType)
  /\ Call("emitEnumRepeated", Builder_emitEnumRepeated(ThisEmitter, Field, ValueType, Value))

emitEnumPacked ==
  /\ IsContainer /\ EnumTypeAccepted(ValueType)
  /\ Call("emitEnumPacked", Builder_emitEnumPacked(ThisEmitter, Field, ValueType, Value))

Next ==
  \/ emitDouble
  \/ emitDoubleRepeated
  \/ emitDoublePacked
  \/ emitFloat
  \/ emitFloatRepeated
  \/ emitFloatPacked
  \/ emitInt32
  \/ emitInt32Repeated
  \/ emitInt32Packed
  \/ emitInt64
  \/ emitInt64Repeated
  \/ emitInt64Packed
  \/ emitUInt32
  \/ emitUInt32Repeated
  \/ emitUInt32Packed
  \/ emitUInt64
  \/ emitUInt64Repeated
  \/ emitUInt64Packed
  \/ emitSInt32
  \/ emitSInt32Repeated
  \/ emitSInt32Packed
  \/ emitSInt64
  \/ emitSInt64Repeated
  \/ emitSInt64Packed
  \/ emitFixed32
  \/ emitFixed32Repeated
  \/ emitFixed32Packed
  \/ emitFixed64
  \/ emitFixed64Repeated
  \/ emitFixed64Packed
  \/ emitSFixed32
  \/ emitSFixed32Repeated
  \/ emitSFixed32Packed
  \/ emitSFixed64
  \/ emitSFixed64Repeated
  \/ emitSFixed64Packed
  \/ emitBool
  \/ emitBoolRepeated
  \/ emitBoolPacked
  \/ emitString
  \/ emitStringRepeated
  \/ emitBytes
  \/ emitBytesRepeated
  \/ emitSubmessage
  \/ emitSubmessageRepeated
  \/ emitEnum
  \/ emitEnumRepeated
  \/ emitEnumPacked

Spec == Init /\ [][Next]_vars

\* ---------------------------------------------- several calls on a Builder

\* A further call is made only on a sink of at most MaxSink bytes.
MaxSink == 2

\* A Builder over an empty sink and the arguments of its first call, from
\* the few values.
InitSeq ==
  /\ Output = <<>>
  /\ Aborted = FALSE
  /\ Op = "none"
  /\ NDEBUG \in BOOLEAN
  /\ BigEndian \in BOOLEAN
  /\ Field \in Fields
  /\ ValueType \in Types
  /\ IsContainer \in BOOLEAN
  /\ Value \in IF IsContainer THEN FewContainers(ValueType) ELSE FewScalars(ValueType)
  /\ Sink = Empty /\ Pending = Empty /\ Alone = Empty

\* The call has returned and the caller goes on to its next call, with new
\* arguments and the field number Fields::One or Fields::Zero.  A call whose
\* assertion failed has ended the process.
NextCall ==
  /\ Op # "none" /\ ~Aborted
  /\ Len(Output) <= MaxSink
  /\ Op' = "none"
  /\ Field' \in {0, 1}
  /\ ValueType' \in Types
  /\ IsContainer' \in BOOLEAN
  /\ Value' \in IF IsContainer' THEN FewContainers(ValueType') ELSE FewScalars(ValueType')
  /\ UNCHANGED <<Output, Aborted, NDEBUG, BigEndian, Sink, Pending, Alone>>

NextSeq == Next \/ NextCall

SpecSeq == InitSeq /\ [][NextSeq]_vars

\* --------------------------------------------- two emitters, two sinks

\* The calls the two instances make: a name, a field number and a value.
TwoCalls ==
  {[name |-> "emitBool", field |-> 1, value |-> <<1>>],
   [name |-> "emitString", field |-> 1, value |-> <<116>>],
   [name |-> "emitUInt64", field |-> 100000, value |-> OneHot(7, W64)],
   [name |-> "emitSInt64", field |-> 1, value |-> Ones(W64, W64)],
   [name |-> "emitSFixed32", field |-> MaxField, value |-> Ones(W32, W32)]}

\* The call c made on a Builder whose emitter is E.
RunCall(c, E) ==
  CASE c.name = "emitBool" -> Builder_emitBool(E, c.field, c.value)
    [] c.name = "emitString" -> Builder_emitString(E, c.field, c.value)
    [] c.name = "emitUInt64" -> Builder_emitUInt64(E, c.field, c.value)
    [] c.name = "emitSInt64" -> Builder_emitSInt64(E, c.field, c.value)
    [] c.name = "emitSFixed32" -> Builder_emitSFixed32(E, c.field, c.value)

\* *Output++ = Byte with every instance writing through the output iterator
\* of the first.
PutOf_OneSink(S, i, Byte) == [S EXCEPT ![1] = Append(@, Byte)]

\* *Output++ = Byte in the instance i, where S holds the sinks: Output is a
\* member of the instance, the iterator it was constructed with.
PutOf(S, i, Byte) == [S EXCEPT ![i] = Append(@, Byte)]

\* Two Emitter instances, each constructed over its own empty sink.
InitTwo ==
  /\ Output = <<>>
  /\ Aborted = FALSE
  /\ Op = "none"
  /\ NDEBUG \in BOOLEAN
  /\ BigEndian \in BOOLEAN
  /\ Field = 1
  /\ ValueType = "bool"
  /\ IsContainer = FALSE
  /\ Value = <<1>>
  /\ Sink = Empty /\ Pending = Empty /\ Alone = Empty

\* The instance i, between calls, starts a call: the call is going to
\* append, byte by byte, what it writes after the bytes of the sink of i.
BeginCall(i) ==
  /\ Pending[i] = <<>>
  /\ Len(Sink[i]) <= MaxSink
  /\ \E c \in TwoCalls :
       LET E == RunCall(c, [Output |-> Sink[i], Aborted |-> FALSE])
       IN  /\ Pending' = [Pending EXCEPT
                            ![i] = SubSeq(E.Output, Len(Sink[i]) + 1, Len(E.Output))]
           /\ Alone' = [Alone EXCEPT
                          ![i] = RunCall(c, [Output |-> @, Aborted |-> FALSE]).Output]
  /\ UNCHANGED <<Output, Aborted, NDEBUG, BigEndian, Op, Field, ValueType, IsContainer,
                 Value, Sink>>

\* The running call of the instance i appends its next byte.
AppendByte(i) ==
  /\ Pending[i] # <<>>
  /\ Sink' = PutOf(Sink, i, Head(Pending[i]))
  /\ Pending' = [Pending EXCEPT ![i] = Tail(@)]
  /\ UNCHANGED <<Output, Aborted, NDEBUG, BigEndian, Op, Field, ValueType, IsContainer,
                 Value, Alone>>

NextTwo == \E i \in Instances : BeginCall(i) \/ AppendByte(i)

SpecTwo == InitTwo /\ [][NextTwo]_vars

\* ------------------------------------------------- reference wire format
\* The encoding as the Protocol Buffers documentation states it, written
\* without the emitter's loops and shifts; the properties below compare the
\* sink with it.

\* Field is a field number the wire format allows.
ValidField == MinField <= Field /\ Field <= MaxField

\* A call has been made and has returned.
Returned == Op # "none" /\ ~Aborted

\* The position of the highest 1 bit of v, 0 when v is zero.
HighBit(v) ==
  LET S == {i \in 1..Len(v) : v[i] = 1}
  IN  IF S = {} THEN 0 ELSE CHOOSE i \in S : \A j \in S : j <= i

\* The least number of 7-bit groups that hold every 1 bit of v, at least 1.
RefVarintLength(v) == IF HighBit(v) = 0 THEN 1 ELSE (HighBit(v) + 6) \div 7

\* The i-th 7-bit group of v, as a number.
Group(v, i) ==
  BitsToNat(SubSeq(v \o Fill(7, 0), 7 * (i - 1) + 1, 7 * i))

\* The shortest base-128 varint of the unsigned value v: its 7-bit groups,
\* least significant first, each but the last with the bit 0x80.
RefVarint(v) ==
  LET k == RefVarintLength(v)
  IN  SubSeq([i \in 1..k |-> Group(v, i) + IF i < k THEN 128 ELSE 0], 1, k)

\* What a decoder reads from a varint: byte i gives bits 7(i-1)+1 .. 7i.
RECURSIVE DecodeVarint(_)
DecodeVarint(bs) ==
  IF bs = <<>> THEN <<>> ELSE IntToBits(bs[1] % 128, 7) \o DecodeVarint(Tail(bs))

\* bs is one well-formed varint: not empty, the bit 0x80 set on every byte
\* but the last and clear on the last.
IsVarint(bs) ==
  /\ Len(bs) >= 1
  /\ \A i \in 1..Len(bs) : (bs[i] >= 128) <=> (i < Len(bs))

\* The length of the first varint of bs: the position of its first byte
\* without the bit 0x80 (0 when there is none).
FirstVarintLength(bs) ==
  LET S == {i \in 1..Len(bs) : bs[i] < 128}
  IN  IF S = {} THEN 0 ELSE CHOOSE i \in S : \A j \in S : i <= j

\* bs without its first varint: what follows the tag of a record.
AfterFirstVarint(bs) == SubSeq(bs, FirstVarintLength(bs) + 1, Len(bs))

\* (f << 3) | w without a width limit: the three bits of w below the bits of f.
RefTag(f, w) == IntToBits(w, 3) \o IntToBits(f, W64)

\* The wire type of the records a Builder function writes (the table of
\* scalar categories): LengthDelimited for the Packed functions and for
\* string, bytes and submessage, I32 and I64 for the fixed-width categories,
\* VarInt for the others.
WireTypeOf(Name) ==
  CASE Name \in {"emitDoublePacked", "emitFloatPacked", "emitInt32Packed", "emitInt64Packed",
                 "emitUInt32Packed", "emitUInt64Packed", "emitSInt32Packed",
                 "emitSInt64Packed", "emitFixed32Packed", "emitFixed64Packed",
                 "emitSFixed32Packed", "emitSFixed64Packed", "emitBoolPacked",
                 "emitEnumPacked", "emitString", "emitStringRepeated", "emitBytes",
                 "emitBytesRepeated", "emitSubmessage", "emitSubmessageRepeated"} -> 2
    [] Name \in {"emitFloat", "emitFloatRepeated", "emitFixed32", "emitFixed32Repeated",
                 "emitSFixed32", "emitSFixed32Repeated"} -> 5
    [] Name \in {"emitDouble", "emitDoubleRepeated", "emitFixed64", "emitFixed64Repeated",
                 "emitSFixed64", "emitSFixed64Repeated"} -> 1
    [] OTHER -> 0

\* The Repeated functions: they write one record per item.
RepeatedOps ==
  {"emitDoubleRepeated", "emitFloatRepeated", "emitInt32Repeated", "emitInt64Repeated",
   "emitUInt32Repeated", "emitUInt64Repeated", "emitSInt32Repeated", "emitSInt64Repeated",
   "emitFixed32Repeated", "emitFixed64Repeated", "emitSFixed32Repeated",
   "emitSFixed64Repeated", "emitBoolRepeated", "emitStringRepeated", "emitBytesRepeated",
   "emitSubmessageRepeated", "emitEnumRepeated"}

\* The first record of bs as a decoder delimits it by the wire type w of its
\* tag: the length of tag and value together, or 0 when bs holds no whole
\* record.
RecordLength(bs, w) ==
  LET t == FirstVarintLength(bs)
      rest == SubSeq(bs, t + 1, Len(bs))
      n == CASE w = 0 -> FirstVarintLength(rest)
             [] w = 1 -> 8
             [] w = 5 -> 4
             [] OTHER -> IF FirstVarintLength(rest) = 0 \/ FirstVarintLength(rest) > 2 THEN 0
                         ELSE FirstVarintLength(rest)
                              + BitsToNat(DecodeVarint(SubSeq(rest, 1, FirstVarintLength(rest))))
  IN  IF t = 0 \/ n = 0 \/ t + n > Len(bs) THEN 0 ELSE t + n

\* bs is exactly k records of wire type w, each starting with the varint tag.
RECURSIVE IsRecords(_, _, _, _)
IsRecords(bs, k, w, tag) ==
  IF k = 0 THEN bs = <<>>
  ELSE /\ RecordLength(bs, w) > 0
       /\ SubSeq(bs, 1, Len(tag)) = tag
       /\ FirstVarintLength(bs) = Len(tag)
       /\ IsRecords(SubSeq(bs, RecordLength(bs, w) + 1, Len(bs)), k - 1, w, tag)

\* ----------------------------------------------------------------- claims

\* C1: decoding the varint that emitVarIntRaw(n) appends, as little-endian
\* base 128 with 7 payload bits per byte, gives back n, and the number of
\* bytes appended is calculateVarIntLength(n).  Seen on emitUInt64 and
\* emitInt64, which append the tag and then emitVarIntRaw of the 64 bits of
\* their value.
C1_VarintRoundTrip ==
  (Returned /\ Op \in {"emitUInt64", "emitInt64"}) =>
     LET bs == AfterFirstVarint(Output)
     IN  /\ IsVarint(bs)
         /\ DecodeVarint(bs) \o Fill(70 - 7 * Len(bs), 0) = Value \o Fill(70 - W64, 0)
         /\ Len(bs) = calculateVarIntLength(Value)

\* C1 witness: emitUInt64(1, 2^64 - 1) has appended the tag and ten bytes.
C1_Witness ==
  /\ Op = "emitUInt64" /\ Value = Ones(W64, W64) /\ Field = 1
  /\ Output = <<8, 255, 255, 255, 255, 255, 255, 255, 255, 255, 1>>

\* C2: the varint emitVarIntRaw(n) appends is in shortest form: 1 to 10
\* bytes, the bit 0x80 set on every byte but the last and clear on the last,
\* the last byte not zero unless n = 0, for which the single byte 0x00 is
\* appended; for n = 2^64 - 1 it is 10 bytes ending in 0x01.
C2_ShortestForm ==
  (Returned /\ Op \in {"emitUInt64", "emitInt64"}) =>
     LET bs == AfterFirstVarint(Output)
     IN  /\ Len(bs) \in 1..10
         /\ IsVarint(bs)
         /\ IF IsZero(Value) THEN bs = <<0>> ELSE bs[Len(bs)] # 0
         /\ Value = Ones(W64, W64) => Len(bs) = 10 /\ bs[10] = 1

\* C2 witness: emitUInt64(1, 0) has appended the tag and the byte 0x00, and
\* emitUInt64 of 2^63 ten bytes.
C2_Witness ==
  /\ Op = "emitUInt64" /\ Field = 1
  /\ \/ IsZero(Value) /\ Output = <<8, 0>>
     \/ Value = OneHot(63, W64) /\ Len(Output) = 11

\* C3: for a field number f in [1, 536870911], what any Builder function
\* appends starts with the varint of (f << 3) | w, w the wire type code of
\* the function's records (0, 1, 2 or 5), and every record appended carries
\* that tag once: a Repeated function appends one record per item, each
\* starting with the tag, and nothing else.
C3_TagFirst ==
  (Returned /\ ValidField) =>
     LET tag == RefVarint(RefTag(Field, WireTypeOf(Op)))
     IN  /\ WireTypeOf(Op) \in {0, 1, 2, 5}
         /\ Output # <<>> =>
              /\ SubSeq(Output, 1, Len(tag)) = tag
              /\ FirstVarintLength(Output) = Len(tag)
         /\ Op \in RepeatedOps => IsRecords(Output, Len(Value), WireTypeOf(Op), tag)
         /\ Op \notin RepeatedOps => Output # <<>>

\* C3 witness: a call with the largest field number has appended its
\* five-byte tag, and a Repeated call two records.
C3_Witness ==
  /\ Returned /\ Field = MaxField
  /\ Op \in RepeatedOps /\ Len(Value) = 2
  /\ SubSeq(Output, 1, 5) = <<250, 255, 255, 255, 15>>

\* n as a two's-complement value of w bits, its sign bit repeated upwards.
SignExtend(n, w) == n \o SubSeq([i \in 1..(w - Len(n)) |-> n[Len(n)]], 1, w - Len(n))

\* An item of type T as the 64-bit value of the same number: sign extension
\* for a signed T, zeros above an unsigned one.
Widen(T, x) == IF is_signed(T) THEN SignExtend(x, W64) ELSE x \o Fill(W64 - Len(x), 0)

\* (n << 1) ^ (n >> 63), the right shift arithmetic, of a 64-bit n.
RefZigZag(n) ==
  LET shl == <<0>> \o SubSeq(n, 1, W64 - 1)
      sar == Fill(W64, n[W64])
  IN  SubSeq([i \in 1..W64 |-> (shl[i] + sar[i]) % 2], 1, W64)

\* The concatenation of the sequences of a sequence.
RECURSIVE Concat(_)
Concat(ss) == IF ss = <<>> THEN <<>> ELSE ss[1] \o Concat(Tail(ss))

\* The sum of the numbers of a sequence.
RECURSIVE Sum(_)
Sum(ns) == IF ns = <<>> THEN 0 ELSE ns[1] + Sum(Tail(ns))

\* The value a signed call was made with, as 64 bits.
SignedValue64 == SignExtend(Value, W64)

\* C4: convertToZigZag(n) is (n << 1) ^ (n >> 63) with an arithmetic right
\* shift: 2n for n >= 0 and 2|n| - 1 for n < 0, so INT64_MIN gives UINT64_MAX
\* and INT64_MAX gives UINT64_MAX - 1; emitSignedVarInt(f, n), reached by
\* emitSInt32 and emitSInt64, appends the VarInt tag of f and then the varint
\* of that value.
C4_ZigZag ==
  (Returned /\ ValidField /\ Op \in {"emitSInt32", "emitSInt64"}) =>
     LET n == SignedValue64
         z == convertToZigZag(n)
     IN  /\ z = RefZigZag(n)
         /\ n[W64] = 0 => z = Add(n, n)
         /\ n[W64] = 1 =>
              Add(z \o <<0>>, OneHot(0, W64 + 1)) = <<0>> \o Add(BitNot(n), OneHot(0, W64))
         /\ n = OneHot(W64 - 1, W64) => z = Ones(W64, W64)
         /\ n = Ones(W64 - 1, W64) => z = <<0>> \o Fill(W64 - 1, 1)
         /\ Output = RefVarint(RefTag(Field, 0)) \o RefVarint(RefZigZag(n))

\* C4 witness: emitSInt64(1, INT64_MIN) has appended the tag and the ten
\* bytes of UINT64_MAX.
C4_Witness ==
  /\ Op = "emitSInt64" /\ Field = 1 /\ Value = OneHot(W64 - 1, W64)
  /\ Output = <<8, 255, 255, 255, 255, 255, 255, 255, 255, 255, 1>>

\* C5: emitInt32(f, n) and emitInt64(f, n) append what emitVarInt(f, u)
\* appends for u = n sign-extended to 64 bits; for a negative n the payload
\* after the tag is 10 bytes.
C5_SignExtendedVarInt ==
  (Op \in {"emitInt32", "emitInt64"}) =>
     /\ ThisEmitter = emitVarInt(NewEmitter, Field, SignExtend(Value, W64))
     /\ (Returned /\ ValidField) =>
          /\ Output = RefVarint(RefTag(Field, 0)) \o RefVarint(SignExtend(Value, W64))
          /\ Value[Len(Value)] = 1 => Len(AfterFirstVarint(Output)) = 10

\* C5 witness: emitInt32(1, -1) has appended the tag, nine 0xFF and 0x01.
C5_Witness ==
  /\ Op = "emitInt32" /\ Field = 1 /\ Value = Ones(W32, W32)
  /\ Output = <<8, 255, 255, 255, 255, 255, 255, 255, 255, 255, 1>>

\* The varints of the items of the container of a call, each item widened
\* to 64 bits.
ItemVarints == [i \in 1..Len(Value) |-> RefVarint(Widen(ValueType, Value[i]))]

\* C6: emitInt32Packed, emitInt64Packed, emitUInt32Packed, emitUInt64Packed
\* and emitBoolPacked append the varint of (f << 3) | 2, a varint L, and then
\* exactly L bytes: the concatenation of the varints of the elements, each
\* widened to 64 bits with its value kept (sign-extended when its type is
\* signed); L is the sum of calculateVarIntLength over those 64-bit values,
\* 10 for every negative element.
C6_PackedVarInt ==
  (Returned /\ ValidField
     /\ Op \in {"emitInt32Packed", "emitInt64Packed", "emitUInt32Packed",
                "emitUInt64Packed", "emitBoolPacked"}) =>
     LET body == Concat(ItemVarints)
         L == Sum([i \in 1..Len(Value) |-> calculateVarIntLength(Widen(ValueType, Value[i]))])
     IN  /\ Output = RefVarint(RefTag(Field, 2)) \o RefVarint(IntToBits(L, W64)) \o body
         /\ Len(body) = L
         /\ \A i \in 1..Len(Value) :
              (is_signed(ValueType) /\ Value[i][Len(Value[i])] = 1) => Len(ItemVarints[i]) = 10

\* C6 witness: emitInt32Packed(1, {128, -1}) has appended 0A 0C 80 01 and
\* the ten bytes of -1.
C6_Witness ==
  /\ Op = "emitInt32Packed" /\ Field = 1 /\ ValueType = "int32_t"
  /\ Value = <<OneHot(7, W32), Ones(W32, W32)>>
  /\ Output = <<10, 12, 128, 1, 255, 255, 255, 255, 255, 255, 255, 255, 255, 1>>

\* C7: emitEnumPacked(f, xs) appends the tag, a length prefix and the
\* varints of the elements, and the length prefix is the number of payload
\* bytes that follow it, also when an element is negative or at least 128
\* and so takes more than one byte.
C7_EnumPackedLength ==
  (Returned /\ ValidField /\ Op = "emitEnumPacked") =>
     LET body == Concat(ItemVarints)
     IN  Output = RefVarint(RefTag(Field, 2)) \o RefVarint(IntToBits(Len(body), W64)) \o body

\* C7 witness: emitEnumPacked(1, {128}) has appended 0A 01 80 01, the length
\* prefix 1 before a payload of two bytes.
C7_Witness ==
  /\ Op = "emitEnumPacked" /\ Field = 1 /\ ValueType = "int32_t" /\ ~Aborted
  /\ Value = <<OneHot(7, W32)>>
  /\ Output = <<10, 1, 128, 1>>

\* The number of fraction bits of the IEEE 754 format of w bits.
FractionBits(w) == IF w = W32 THEN 23 ELSE 52

\* The exponent bias of the IEEE 754 format of w bits.
Bias(w) == IF w = W32 THEN 127 ELSE 1023

\* The exponent field of the floating-point value v.
Exponent(v) == BitsToNat(SubSeq(v, FractionBits(Len(v)) + 1, Len(v) - 1))

\* The conversion of the floating-point value v to an unsigned integer of as
\* many bits is defined: v without its fraction is in 0 .. 2^w - 1.
FloatConverts(v) ==
  \/ Exponent(v) < Bias(Len(v))
  \/ v[Len(v)] = 0 /\ Exponent(v) - Bias(Len(v)) < Len(v)

\* The floating-point value v converted to the unsigned integer type of as
\* many bits: the value without its fraction.
FloatToUnsigned(v) ==
  LET w == Len(v)
      m == FractionBits(w)
      shift == Exponent(v) - Bias(w)
      sig == SubSeq(v, 1, m) \o <<1>>
  IN  IF Exponent(v) < Bias(w) THEN Fill(w, 0)
      ELSE IF shift <= m THEN SubSeq(sig, m - shift + 1, m + 1) \o Fill(w - shift - 1, 0)
      ELSE SubSeq(Fill(shift - m, 0) \o sig \o Fill(w, 0), 1, w)

\* The item x of type T as the argument for a parameter of type U of a
\* singular function: the implicit conversion of the call.
Argument(T, x, U) ==
  IF T = U \/ T = "string" THEN x
  ELSE IF is_integral(T) THEN Convert(x, is_signed(T), Width(U))
  ELSE FloatToUnsigned(x)

\* The singular function of the category of the call made, applied to the
\* emitter E, the field number f and the item x of type T.
SingularOf(E, f, T, x) ==
  CASE Op \in {"emitDoubleRepeated", "emitDoublePacked"} -> Builder_emitDouble(E, f, x)
    [] Op \in {"emitFloatRepeated", "emitFloatPacked"} -> Builder_emitFloat(E, f, x)
    [] Op \in {"emitInt32Repeated", "emitInt32Packed"} ->
         Builder_emitInt32(E, f, Argument(T, x, "int32_t"))
    [] Op \in {"emitInt64Repeated", "emitInt64Packed"} ->
         Builder_emitInt64(E, f, Argument(T, x, "int64_t"))
    [] Op \in {"emitUInt32Repeated", "emitUInt32Packed"} ->
         Builder_emitUInt32(E, f, Argument(T, x, "uint32_t"))
    [] Op \in {"emitUInt64Repeated", "emitUInt64Packed"} ->
         Builder_emitUInt64(E, f, Argument(T, x, "uint64_t"))
    [] Op \in {"emitSInt32Repeated", "emitSInt32Packed"} ->
         Builder_emitSInt32(E, f, Argument(T, x, "int32_t"))
    [] Op \in {"emitSInt64Repeated", "emitSInt64Packed"} ->
         Builder_emitSInt64(E, f, Argument(T, x, "int64_t"))
    [] Op \in {"emitFixed32Repeated", "emitFixed32Packed"} ->
         Builder_emitFixed32(E, f, Argument(T, x, "uint32_t"))
    [] Op \in {"emitFixed64Repeated", "emitFixed64Packed"} ->
         Builder_emitFixed64(E, f, Argument(T, x, "uint64_t"))
    [] Op \in {"emitSFixed32Repeated", "emitSFixed32Packed"} ->
         Builder_emitSFixed32(E, f, Argument(T, x, "int32_t"))
    [] Op \in {"emitSFixed64Repeated", "emitSFixed64Packed"} ->
         Builder_emitSFixed64(E, f, Argument(T, x, "int64_t"))
    [] Op \in {"emitBoolRepeated", "emitBoolPacked"} -> Builder_emitBool(E, f, x)
    [] Op = "emitStringRepeated" -> Builder_emitString(E, f, x)
    [] Op = "emitBytesRepeated" -> Builder_emitBytes(E, f, x)
    [] Op = "emitSubmessageRepeated" -> Builder_emitSubmessage(E, f, x)
    [] Op \in {"emitEnumRepeated", "emitEnumPacked"} -> Builder_emitEnum(E, f, T, x)

\* What the singular function of the category appends after the tag for
\* each item of the container of the call.
SingularPayloads ==
  [i \in 1..Len(Value) |->
     AfterFirstVarint(SingularOf(NewEmitter, Field, ValueType, Value[i]).Output)]

\* C8: emitFixed32Packed, emitSFixed32Packed and emitFloatPacked (resp.
\* emitFixed64Packed, emitSFixed64Packed and emitDoublePacked) append, for n
\* elements, the tag (f << 3) | 2, the varint of 4n (resp. 8n) and then 4n
\* (resp. 8n) bytes: for each element in order the 4 (resp. 8) bytes the
\* singular function appends after its tag for that element.
C8_PackedFixed ==
  (Returned /\ ValidField
     /\ Op \in {"emitFixed32Packed", "emitSFixed32Packed", "emitFloatPacked",
                "emitFixed64Packed", "emitSFixed64Packed", "emitDoublePacked"}) =>
     LET size == IF Op \in {"emitFixed32Packed", "emitSFixed32Packed", "emitFloatPacked"}
                 THEN 4 ELSE 8
         n == Len(Value)
         body == Concat(SingularPayloads)
     IN  /\ Output = RefVarint(RefTag(Field, 2)) \o RefVarint(IntToBits(size * n, W64)) \o body
         /\ \A i \in 1..n : Len(SingularPayloads[i]) = size
         /\ Len(body) = size * n

\* C8 witness: emitSFixed32Packed(1, {128, -1}) on a little-endian host has
\* appended 0A 08 80 00 00 00 FF FF FF FF.
C8_Witness ==
  /\ Op = "emitSFixed32Packed" /\ Field = 1 /\ ~BigEndian /\ ValueType = "int32_t"
  /\ Value = <<OneHot(7, W32), Ones(W32, W32)>>
  /\ Output = <<10, 8, 128, 0, 0, 0, 255, 255, 255, 255>>

\* The ZigZag varints of the items of the container of a call.
ItemZigZagVarints ==
  [i \in 1..Len(Value) |-> RefVarint(RefZigZag(Widen(ValueType, Value[i])))]

\* C9: emitSInt32Packed and emitSInt64Packed append the tag (f << 3) | 2, a
\* varint L and then the concatenation of varint(zigzag(x)) over the
\* elements in order; L is the sum of calculateVarIntLength(zigzag(x)).
C9_PackedSInt ==
  (Returned /\ ValidField /\ Op \in {"emitSInt32Packed", "emitSInt64Packed"}) =>
     LET body == Concat(ItemZigZagVarints)
         L == Sum([i \in 1..Len(Value) |->
                     calculateVarIntLength(convertToZigZag(Widen(ValueType, Value[i])))])
     IN  /\ Output = RefVarint(RefTag(Field, 2)) \o RefVarint(IntToBits(L, W64)) \o body
         /\ Len(body) = L

\* C9 witness: emitSInt32Packed(1, {128, -1}) has appended 0A 03 80 02 01.
C9_Witness ==
  /\ Op = "emitSInt32Packed" /\ Field = 1 /\ ValueType = "int32_t"
  /\ Value = <<OneHot(7, W32), Ones(W32, W32)>>
  /\ Output = <<10, 3, 128, 2, 1>>

\* The emitter after the singular function of the category has been called
\* for each item of the container in order, from an empty sink.
SingularCalls ==
  LET g[i \in 0..Len(Value)] ==
        IF i = 0 THEN NewEmitter
        ELSE SingularOf(g[i - 1], Field, ValueType, Value[i])
  IN  g[Len(Value)]

\* The conversion of every item of the call to the parameter of the singular
\* function is defined.
ItemsConvert ==
  (ValueType \in {"float", "double"} /\ Op \in {"emitFixed32Repeated", "emitFixed64Repeated"})
     => \A i \in 1..Len(Value) : FloatConverts(Value[i])

\* C10: the Repeated function of every category appends, for a field f and a
\* sequence xs, exactly the concatenation of what the singular function of
\* the category appends for (f, x) for each x of xs in order, and nothing
\* when xs is empty.
C10_RepeatedIsSingulars ==
  (Op \in RepeatedOps /\ ItemsConvert) =>
     /\ ThisEmitter = SingularCalls
     /\ Value = <<>> => Output = <<>>

\* C10 witness: emitFixed32Repeated(1, {1.0f}) on a little-endian host has
\* appended 0D 00 00 80 3F, and emitFixed32(1, 1.0f) appends 0D 01 00 00 00.
C10_Witness ==
  /\ Op = "emitFixed32Repeated" /\ Field = 1 /\ ValueType = "float" /\ ~BigEndian
  /\ Value = <<FloatOne(W32)>>
  /\ Output = <<13, 0, 0, 128, 63>>
  /\ SingularCalls.Output = <<13, 1, 0, 0, 0>>

\* The Builder function Name applied to the emitter E with the arguments of
\* the call.
BuilderCall(Name, E) ==
  CASE Name = "emitDouble" -> Builder_emitDouble(E, Field, Value)
    [] Name = "emitDoubleRepeated" -> Builder_emitDoubleRepeated(E, Field, ValueType, Value)
    [] Name = "emitDoublePacked" -> Builder_emitDoublePacked(E, Field, ValueType, Value)
    [] Name = "emitFloat" -> Builder_emitFloat(E, Field, Value)
    [] Name = "emitFloatRepeated" -> Builder_emitFloatRepeated(E, Field, ValueType, Value)
    [] Name = "emitFloatPacked" -> Builder_emitFloatPacked(E, Field, ValueType, Value)
    [] Name = "emitInt32" -> Builder_emitInt32(E, Field, Value)
    [] Name = "emitInt32Repeated" -> Builder_emitInt32Repeated(E, Field, ValueType, Value)
    [] Name = "emitInt32Packed" -> Builder_emitInt32Packed(E, Field, ValueType, Value)
    [] Name = "emitInt64" -> Builder_emitInt64(E, Field, Value)
    [] Name = "emitInt64Repeated" -> Builder_emitInt64Repeated(E, Field, ValueType, Value)
    [] Name = "emitInt64Packed" -> Builder_emitInt64Packed(E, Field, ValueType, Value)
    [] Name = "emitUInt32" -> Builder_emitUInt32(E, Field, Value)
    [] Name = "emitUInt32Repeated" -> Builder_emitUInt32Repeated(E, Field, ValueType, Value)
    [] Name = "emitUInt32Packed" -> Builder_emitUInt32Packed(E, Field, ValueType, Value)
    [] Name = "emitUInt64" -> Builder_emitUInt64(E, Field, Value)
    [] Name = "emitUInt64Repeated" -> Builder_emitUInt64Repeated(E, Field, ValueType, Value)
    [] Name = "emitUInt64Packed" -> Builder_emitUInt64Packed(E, Field, ValueType, Value)
    [] Name = "emitSInt32" -> Builder_emitSInt32(E, Field, Value)
    [] Name = "emitSInt32Repeated" -> Builder_emitSInt32Repeated(E, Field, ValueType, Value)
    [] Name = "emitSInt32Packed" -> Builder_emitSInt32Packed(E, Field, ValueType, Value)
    [] Name = "emitSInt64" -> Builder_emitSInt64(E, Field, Value)
    [] Name = "emitSInt64Repeated" -> Builder_emitSInt64Repeated(E, Field, ValueType, Value)
    [] Name = "emitSInt64Packed" -> Builder_emitSInt64Packed(E, Field, ValueType, Value)
    [] Name = "emitFixed32" -> Builder_emitFixed32(E, Field, Value)
    [] Name = "emitFixed32Repeated" -> Builder_emitFixed32Repeated(E, Field, ValueType, Value)
    [] Name = "emitFixed32Packed" -> Builder_emitFixed32Packed(E, Field, ValueType, Value)
    [] Name = "emitFixed64" -> Builder_emitFixed64(E, Field, Value)
    [] Name = "emitFixed64Repeated" -> Builder_emitFixed64Repeated(E, Field, ValueType, Value)
    [] Name = "emitFixed64Packed" -> Builder_emitFixed64Packed(E, Field, ValueType, Value)
    [] Name = "emitSFixed32" -> Builder_emitSFixed32(E, Field, Value)
    [] Name = "emitSFixed32Repeated" -> Builder_emitSFixed32Repeated(E, Field, ValueType, Value)
    [] Name = "emitSFixed32Packed" -> Builder_emitSFixed32Packed(E, Field, ValueType, Value)
    [] Name = "emitSFixed64" -> Builder_emitSFixed64(E, Field, Value)
    [] Name = "emitSFixed64Repeated" -> Builder_emitSFixed64Repeated(E, Field, ValueType, Value)
    [] Name = "emitSFixed64Packed" -> Builder_emitSFixed64Packed(E, Field, ValueType, Value)
    [] Name = "emitBool" -> Builder_emitBool(E, Field, Value)
    [] Name = "emitBoolRepeated" -> Builder_emitBoolRepeated(E, Field, ValueType, Value)
    [] Name = "emitBoolPacked" -> Builder_emitBoolPacked(E, Field, ValueType, Value)
    [] Name = "emitString" -> Builder_emitString(E, Field, Value)
    [] Name = "emitStringRepeated" -> Builder_emitStringRepeated(E, Field, ValueType, Value)
    [] Name = "emitBytes" -> Builder_emitBytes(E, Field, Value)
    [] Name = "emitBytesRepeated" -> Builder_emitBytesRepeated(E, Field, ValueType, Value)
    [] Name = "emitSubmessage" -> Builder_emitSubmessage(E, Field, Value)
    [] Name = "emitSubmessageRepeated" -> Builder_emitSubmessageRepeated(E, Field, ValueType, Value)
    [] Name = "emitEnum" -> Builder_emitEnum(E, Field, ValueType, Value)
    [] Name = "emitEnumRepeated" -> Builder_emitEnumRepeated(E, Field, ValueType, Value)
    [] Name = "emitEnumPacked" -> Builder_emitEnumPacked(E, Field, ValueType, Value)

\* A step is a call: the Builder function Op' is entered and left.
IsCall == Op = "none" /\ Op' # "none"

\* C11: after the calls op1 .. opk on one Builder the sink holds
\* bytes(op1) ++ ... ++ bytes(opk) in call order, bytes(op) being what op
\* appends to an empty sink: every call leaves the sink as it found it
\* followed by what the call appends to an empty sink, which depends on the
\* arguments of the call only.
C11_CallsConcatenate ==
  [][IsCall =>
       /\ Output' = Output \o BuilderCall(Op', NewEmitter).Output
       /\ Aborted' = BuilderCall(Op', NewEmitter).Aborted]_vars

\* C11 witness: emitBool(1, true) twice has left 08 01 08 01.
C11_Witness ==
  /\ Op = "emitBool" /\ Field = 1 /\ Value = <<1>>
  /\ Output = <<8, 1, 8, 1>>

\* C12: every step only appends: the sink before the step is a prefix of the
\* sink after it.
C12_AppendOnly ==
  [][/\ Len(Output) <= Len(Output')
     /\ SubSeq(Output', 1, Len(Output)) = Output]_vars

\* C12 witness: emitString(1, "t") on a sink that held 0A 00 has left
\* 0A 00 0A 01 74.
C12_Witness ==
  /\ Op = "emitString" /\ Field = 1
  /\ Output = <<10, 0, 10, 1, 116>>

\* The bytes of the value v, least significant byte first.
LittleEndian(v) ==
  SubSeq([j \in 1..(Len(v) \div 8) |-> BitsToNat(SubSeq(v, 8 * (j - 1) + 1, 8 * j))],
         1, Len(v) \div 8)

\* The Builder functions of the categories of w bits of fixed width.
FixedOps(w) ==
  IF w = W32
    THEN {"emitFixed32", "emitFixed32Repeated", "emitFixed32Packed",
          "emitSFixed32", "emitSFixed32Repeated", "emitSFixed32Packed",
          "emitFloat", "emitFloatRepeated", "emitFloatPacked"}
    ELSE {"emitFixed64", "emitFixed64Repeated", "emitFixed64Packed",
          "emitSFixed64", "emitSFixed64Repeated", "emitSFixed64Packed",
          "emitDouble", "emitDoubleRepeated", "emitDoublePacked"}

\* The Packed functions.
PackedOps ==
  {"emitDoublePacked", "emitFloatPacked", "emitInt32Packed", "emitInt64Packed",
   "emitUInt32Packed", "emitUInt64Packed", "emitSInt32Packed", "emitSInt64Packed",
   "emitFixed32Packed", "emitFixed64Packed", "emitSFixed32Packed", "emitSFixed64Packed",
   "emitBoolPacked", "emitEnumPacked"}

\* The w bits written for the item x of a call of a fixed-width category:
\* the bits of a floating-point item, an integral item converted to w bits.
FixedValue(x, w) ==
  IF is_integral(ValueType) THEN Convert(x, is_signed(ValueType), w) ELSE x

\* What a call of a fixed-width category of w bits appends when every value
\* is written least significant byte first.
LittleEndianOutput(w) ==
  LET tag == RefVarint(RefTag(Field, IF w = W32 THEN 5 ELSE 1))
      items == [i \in 1..Len(Value) |-> LittleEndian(FixedValue(Value[i], w))]
  IN  IF Op \in PackedOps
        THEN RefVarint(RefTag(Field, 2)) \o RefVarint(IntToBits(Len(Concat(items)), W64))
             \o Concat(items)
      ELSE IF Op \in RepeatedOps
        THEN Concat([i \in 1..Len(Value) |-> tag \o items[i]])
      ELSE tag \o LittleEndian(FixedValue(Value, w))

C14_LengthDelimited ==
  (Returned /\ ValidField /\ Op \in {"emitString", "emitBytes", "emitSubmessage"}) =>
     /\ Output = RefVarint(RefTag(Field, 2)) \o RefVarint(IntToBits(Len(Value), W64)) \o Value
     /\ Value = <<>> => Output = RefVarint(RefTag(Field, 2)) \o <<0>>

\* C14 witness: emitBytes(1, b) for the two bytes 00 FF has appended
\* 0A 02 00 FF, and emitString(1, "") has appended 0A 00.
C14_Witness ==
  /\ Field = 1
  /\ \/ Op = "emitBytes" /\ Value = <<0, 255>> /\ Output = <<10, 2, 0, 255>>
     \/ Op = "emitString" /\ Value = <<>> /\ Output = <<10, 0>>

\* C15: every Packed function (varint, bool, zigzag, fixed32, fixed64, enum)
\* called with an empty sequence appends the LengthDelimited tag and the
\* byte 0x00, and nothing else.
C15_EmptyPacked ==
  (Returned /\ ValidField /\ Op \in PackedOps /\ Value = <<>>) =>
     Output = RefVarint(RefTag(Field, 2)) \o <<0>>

\* C15 witness: emitEnumPacked(100000, {}) has appended 82 EA 30 00.
C15_Witness ==
  /\ Op = "emitEnumPacked" /\ Field = 100000 /\ Value = <<>>
  /\ Output = <<130, 234, 48, 0>>

\* C16: a call with a field number below 1 or above 536870911 is detected
\* before anything is emitted: the call fails and the sink is left as it was
\* before the call, with no tag byte and no payload byte appended.  (A
\* Repeated function given an empty sequence has nothing to emit and is let
\* return.)
C16_InvalidFieldRejected ==
  (Op # "none" /\ ~ValidField) =>
     /\ Output = <<>>
     /\ Aborted \/ (Op \in RepeatedOps /\ Value = <<>>)

\* C16 witness: in a build without assertions emitBool(Fields::Zero, true)
\* has returned and has appended 00 01.
C16_Witness ==
  /\ NDEBUG /\ Op = "emitBool" /\ Field = 0 /\ Value = <<1>> /\ ~Aborted
  /\ Output = <<0, 1>>

\* C17: no call appends a partial record: a call that stops on a check of its
\* arguments, emitEnumRepeated and emitEnumPacked included, stops before it
\* has appended any byte, not after a tag or a length prefix.
C17_NoPartialRecord ==
  (Op # "none" /\ Aborted) => Output = <<>>

\* C17 witness: in a build with assertions emitEnumPacked(1, {2^31}) with
\* std::uint32_t items has appended the tag and the length, 0A 01, and has
\* then stopped on the assertion.
C17_Witness ==
  /\ ~NDEBUG /\ Op = "emitEnumPacked" /\ Field = 1 /\ ValueType = "uint32_t"
  /\ Value = <<OneHot(W32 - 1, W32)>>
  /\ Aborted /\ Output = <<10, 1>>

\* bs is exactly k records, each delimited by the wire type w and each with
\* w in the low 3 bits of its tag.
RECURSIVE RecordsHaveWireType(_, _, _)
RecordsHaveWireType(bs, k, w) ==
  IF k = 0 THEN bs = <<>>
  ELSE /\ RecordLength(bs, w) > 0
       /\ bs[1] % 8 = w
       /\ RecordsHaveWireType(SubSeq(bs, RecordLength(bs, w) + 1, Len(bs)), k - 1, w)

\* C19: each Builder function emits the one wire type of its category: 0 for
\* int32, int64, uint32, uint64, sint32, sint64, bool and enum, 5 for
\* fixed32, sfixed32 and float, 1 for fixed64, sfixed64 and double, 2 for
\* string, bytes, submessage and every Packed function; the low 3 bits of
\* every record tag in the sink are in {0, 1, 2, 5}, never 3 or 4.
C19_WireTypeOfCategory ==
  Returned =>
     /\ Output # <<>> =>
          /\ Output[1] % 8 = WireTypeOf(Op)
          /\ Output[1] % 8 \in {VarInt, I64, LengthDelimited, I32}
          /\ Output[1] % 8 \notin {StartGroup, EndGroup}
     /\ (Op \in RepeatedOps /\ ValidField) =>
          RecordsHaveWireType(Output, Len(Value), WireTypeOf(Op))

\* C19 witness: emitSFixed32Repeated(1, xs) with two items has appended two
\* records of wire type 5, and emitDouble a record of wire type 1.
C19_Witness ==
  /\ Returned /\ Field = 1
  /\ \/ Op = "emitSFixed32Repeated" /\ Len(Value) = 2 /\ Len(Output) = 10
        /\ Output[1] = 13 /\ Output[6] = 13
     \/ Op = "emitDouble" /\ Output[1] = 9

\* The value of a call of emitEnum is in -2^31 .. 2^31 - 1.
EnumValueInRange == ValueType # "uint32_t" \/ Value[W32] = 0

\* C20: for a value v in -2^31 .. 2^31 - 1 of any type the static check of
\* emitEnum admits, the range assertion of emitEnum passes and the call
\* appends the VarInt tag and the varint of v as 64 bits; a value outside
\* that range is rejected.
C20_EnumRange ==
  (Op = "emitEnum") =>
     /\ (EnumValueInRange /\ ValidField) =>
          /\ ~Aborted
          /\ Output = RefVarint(RefTag(Field, 0)) \o RefVarint(Widen(ValueType, Value))
     /\ ~EnumValueInRange => (Aborted /\ Output = <<>>)

\* C20 witness: in a build with assertions emitEnum(1, 128) with a
\* std::uint32_t value has stopped on the range assertion.
C20_Witness ==
  /\ ~NDEBUG /\ Op = "emitEnum" /\ Field = 1 /\ ValueType = "uint32_t"
  /\ Value = OneHot(7, W32)
  /\ Aborted /\ Output = <<>>

\* ------------------------------------------------------ reference decoder

\* What a decoder gives for bytes that are no whole record.
Malformed == [field |-> -1, wire |-> -1, payload |-> <<>>]

\* The records of bs as a wire-format decoder reads them, each with its field
\* number, its wire type and the bytes of its value (for LengthDelimited the
\* bytes after the length); Malformed at the first byte that starts no whole
\* record.
RECURSIVE WireRecords(_)
WireRecords(bs) ==
  IF bs = <<>> THEN <<>>
  ELSE LET t == FirstVarintLength(bs)
           tag == DecodeVarint(SubSeq(bs, 1, t)) \o Fill(W32, 0)
           wire == BitsToNat(SubSeq(tag, 1, 3))
           n == IF t \in 1..5 /\ wire \in {0, 1, 2, 5} THEN RecordLength(bs, wire) ELSE 0
           value == SubSeq(bs, t + 1, n)
       IN  IF n = 0 THEN <<Malformed>>
           ELSE <<[field |-> BitsToNat(SubSeq(tag, 4, W32)),
                   wire |-> wire,
                   payload |-> IF wire = 2 THEN AfterFirstVarint(value) ELSE value]>>
                \o WireRecords(SubSeq(bs, n + 1, Len(bs)))

\* The 64-bit value of a varint.
VarintValue(bs) == SubSeq(DecodeVarint(bs) \o Fill(W64, 0), 1, W64)

\* The value whose ZigZag encoding is z: (z >> 1) ^ -(z & 1).
UnZigZag(z) ==
  LET shr == SubSeq(z, 2, W64) \o <<0>>
  IN  SubSeq([i \in 1..W64 |-> (shr[i] + z[1]) % 2], 1, W64)

\* The value of bytes that hold it least significant byte first.
FixedBits(bs) == Concat([i \in 1..Len(bs) |-> IntToBits(bs[i], 8)])

\* The varints that bs is the concatenation of; <<>> after a last varint
\* that is cut short.
RECURSIVE SplitVarints(_)
SplitVarints(bs) ==
  IF bs = <<>> \/ FirstVarintLength(bs) = 0 THEN <<>>
  ELSE <<SubSeq(bs, 1, FirstVarintLength(bs))>> \o SplitVarints(AfterFirstVarint(bs))

\* The functions of the ZigZag categories.
ZigZagOps ==
  {"emitSInt32", "emitSInt32Repeated", "emitSInt32Packed",
   "emitSInt64", "emitSInt64Repeated", "emitSInt64Packed"}

\* The functions of string, bytes and submessage.
LenOps ==
  {"emitString", "emitStringRepeated", "emitBytes", "emitBytesRepeated",
   "emitSubmessage", "emitSubmessageRepeated"}

\* The value a decoder that knows the category of the function Name reads
\* from the bytes bs of one scalar.
ScalarRead(Name, bs) ==
  IF Name \in LenOps THEN bs
  ELSE IF Name \in FixedOps(W32) \cup FixedOps(W64) THEN FixedBits(bs)
  ELSE IF Name \in ZigZagOps THEN UnZigZag(VarintValue(bs))
  ELSE VarintValue(bs)

\* The elements a decoder reads from the payload bs of a packed field of the
\* function Name; Malformed when bs is not a whole number of elements.
PackedRead(Name, bs) ==
  LET size == IF Name \in FixedOps(W32) THEN 4 ELSE 8
      parts == IF Name \in FixedOps(W32) \cup FixedOps(W64)
                 THEN [i \in 1..(Len(bs) \div size) |->
                         SubSeq(bs, size * (i - 1) + 1, size * i)]
                 ELSE SplitVarints(bs)
  IN  IF Len(Concat(parts)) # Len(bs) THEN Malformed
      ELSE [i \in 1..Len(parts) |-> ScalarRead(Name, parts[i])]

\* What a decoder that knows the category of the function Name reads from
\* the bytes bs: for each record its field number, wire type and value.
Decoded(Name, bs) ==
  LET rs == WireRecords(bs)
  IN  [i \in 1..Len(rs) |->
         IF rs[i] = Malformed THEN Malformed
         ELSE [field |-> rs[i].field, wire |-> rs[i].wire,
               value |-> IF Name \in PackedOps /\ rs[i].wire = 2
                           THEN PackedRead(Name, rs[i].payload)
                           ELSE ScalarRead(Name, rs[i].payload)]]

\* The scalar x of type T as the value of the category of the function Name:
\* the bytes of a string, the bits of a fixed-width value, the 64-bit number
\* of a varint value.
SuppliedValue(Name, T, x) ==
  IF Name \in LenOps THEN x
  ELSE IF Name \in FixedOps(W32) \cup FixedOps(W64)
    THEN (IF is_integral(T) THEN Convert(x, is_signed(T), IF Name \in FixedOps(W32) THEN W32 ELSE W64)
          ELSE x)
  ELSE Widen(T, x)

\* The records the call of the function Name supplies: one for a singular
\* call, one per item for a Repeated call, one holding the sequence of the
\* items for a Packed call.
Supplied(Name) ==
  LET items == [i \in 1..Len(Value) |-> SuppliedValue(Name, ValueType, Value[i])]
  IN  IF Name \in PackedOps
        THEN <<[field |-> Field, wire |-> 2, value |-> items]>>
      ELSE IF Name \in RepeatedOps
        THEN [i \in 1..Len(Value) |->
                [field |-> Field, wire |-> WireTypeOf(Name), value |-> items[i]]]
      ELSE <<[field |-> Field, wire |-> WireTypeOf(Name),
              value |-> SuppliedValue(Name, ValueType, Value)]>>

\* What a step has appended to the sink.
Appended == SubSeq(Output', Len(Output) + 1, Len(Output'))

\* C18: a reference wire-format decoder run over the sink after calls with
\* valid field numbers consumes every byte, with no leftover and no record
\* cut short, and reads in call order the records that were supplied, each
\* with its field number, wire type and value, and for a Packed call with
\* the sequence of its elements: what every call appends decodes to the
\* records of that call.
C18_DecoderRoundTrip ==
  [][(IsCall /\ ValidField /\ ~Aborted') => Decoded(Op', Appended) = Supplied(Op')]_vars

\* C18 witness: emitEnumPacked(1, {128}) has appended 0A 01 80 01 to a sink
\* that held 08 01: a packed field whose one byte is a varint cut short, and
\* then a byte that starts no record.
C18_Witness ==
  /\ Op = "emitEnumPacked" /\ Field = 1 /\ ~Aborted /\ Value = <<OneHot(7, W32)>>
  /\ Output = <<8, 1, 10, 1, 128, 1>>

\* ------------------------------------------------- fixed-width elements

\* The elements of the call: the items of a container, or the one scalar.
Elements == IF IsContainer THEN Value ELSE <<Value>>

\* The fixed-width values a decoder reads from the sink, in order: the
\* elements of the one packed record, or the values of the records.
FixedRead ==
  LET rs == Decoded(Op, Output)
  IN  IF Op \in PackedOps THEN rs[1].value
      ELSE SubSeq([i \in 1..Len(rs) |-> rs[i].value], 1, Len(rs))

\* The element x of type T belongs to a fixed-width category of w bits and
\* v, read from the w payload bits, is its value: an integer of at most w
\* bits that is the number v, read with the signedness of T; or the
\* floating-point type of w bits with the bits v.
FixedElementKept(T, x, w, v) ==
  IF is_integral(T)
    THEN /\ Width(T) <= w
         /\ Convert(v, is_signed(T), W64) = Widen(T, x)
    ELSE Width(T) = w /\ v = x

\* C21: every entry point of fixed32 / sfixed32 / float takes only elements
\* that are integers of 32 bits or float, every entry point of fixed64 /
\* sfixed64 / double only integers of 64 bits or double; the 4 (resp. 8)
\* payload bytes of every element decode back to the value of that element,
\* and no element of a wider type is truncated.  (Hosts that store the least
\* significant byte first.)
C21_FixedElementsKept ==
  (Returned /\ ValidField /\ ~BigEndian /\ Op \in FixedOps(W32) \cup FixedOps(W64)) =>
     LET w == IF Op \in FixedOps(W32) THEN W32 ELSE W64
     IN  /\ Len(FixedRead) = Len(Elements)
         /\ \A i \in 1..Len(Elements) :
              FixedElementKept(ValueType, Elements[i], w, FixedRead[i])

\* C21 witness: emitSFixed32Repeated(1, {-2^63}) with std::int64_t items has
\* appended 0D 00 00 00 00, the value 0.
C21_Witness ==
  /\ Op = "emitSFixed32Repeated" /\ Field = 1 /\ ~BigEndian /\ ValueType = "int64_t"
  /\ Value = <<OneHot(W64 - 1, W64)>>
  /\ Output = <<13, 0, 0, 0, 0>>

\* ------------------------------------------------- independent emitters

\* a is the beginning of b.
IsPrefix(a, b) == Len(a) <= Len(b) /\ SubSeq(b, 1, Len(a)) = a

\* C22: two Emitter instances over two sinks are independent.  However the
\* calls and the single byte appends of the two interleave, the sink of each
\* holds the beginning of what the calls of its own instance append when run
\* alone, the rest being what its running call has still to append; with no
\* call running it holds exactly those bytes.
C22_IndependentEmitters ==
  \A i \in Instances :
     /\ IsPrefix(Sink[i], Alone[i])
     /\ Sink[i] \o Pending[i] = Alone[i]

\* C22 witness: the first instance has appended 08 01 by emitBool(1, true)
\* and returned, while emitString(1, "t") of the second has appended 0A 01
\* and has 74 still to append.
C22_Witness ==
  /\ Sink[1] = <<8, 1>> /\ Pending[1] = <<>>
  /\ Sink[2] = <<10, 1>> /\ Pending[2] = <<116>>
  /\ Alone[2] = <<10, 1, 116>>

\* -------------------------------------------------------- pure functions

\* The 64-bit value of the varint that follows the tag in the sink.
PayloadValue == VarintValue(AfterFirstVarint(Output))

\* C23: convertToZigZag is a bijection from the signed 64-bit integers onto
\* the unsigned ones.  With unzigzag(u) = (u >> 1) ^ -(u & 1),
\* unzigzag(convertToZigZag(n)) = n for the value n that emitSInt32 or
\* emitSInt64 was called with and whose ZigZag value is in the sink; no other
\* input gives the same output; and every unsigned u is the output of
\* unzigzag(u).
C23_ZigZagBijection ==
  (Returned /\ ValidField /\ Op \in {"emitSInt32", "emitSInt64"}) =>
     LET n == SignedValue64
     IN  /\ PayloadValue = convertToZigZag(n)
         /\ UnZigZag(PayloadValue) = n
         /\ \A m \in IntValues(W64) : convertToZigZag(m) = PayloadValue => m = n
         /\ convertToZigZag(UnZigZag(n)) = n

\* C23 witness: emitSInt64(1, -1) has appended 08 01.
C23_Witness ==
  /\ Op = "emitSInt64" /\ Field = 1 /\ Value = Ones(W64, W64)
  /\ Output = <<8, 1>>

\* The highest-set-bit thresholds of the widths 1..10.
Thresholds == <<7, 14, 21, 28, 35, 42, 49, 56, 63, 64>>

\* v < 2^(7k): no bit of v above the lowest 7k is set.
Below(v, k) == \A j \in (7 * k + 1)..Len(v) : v[j] = 0

\* The least k in 1..10 with v < 2^(7k).
LeastLength(v) == CHOOSE k \in 1..10 : Below(v, k) /\ \A j \in 1..(k - 1) : ~Below(v, j)

\* The items of the container as unsigned 64-bit values.
Items64 == [i \in 1..Len(Value) |-> Widen(ValueType, Value[i])]

\* C24: for every unsigned 64-bit v, calculateVarIntLength(v) is the least k
\* in 1..10 with v < 2^(7k): the highest set bit of v is within the k-th of
\* the thresholds 7, 14, 21, 28, 35, 42, 49, 56, 63, 64 and above the one
\* before, k is 10 for v >= 2^63 and 1 for v = 0.  Seen on emitUInt64, whose
\* varint has that length, and on emitUInt64Packed and emitInt64Packed,
\* whose length prefix is the sum of calculateVarIntLength over the items.
C24_VarIntLength ==
  /\ (Returned /\ ValidField /\ Op = "emitUInt64") =>
        LET k == calculateVarIntLength(Value)
        IN  /\ k \in 1..10
            /\ k = LeastLength(Value)
            /\ HighBit(Value) <= Thresholds[k]
            /\ k > 1 => HighBit(Value) > Thresholds[k - 1]
            /\ Value[W64] = 1 => k = 10
            /\ IsZero(Value) => k = 1
            /\ Len(AfterFirstVarint(Output)) = k
  /\ (Returned /\ ValidField /\ Op \in {"emitUInt64Packed", "emitInt64Packed"}) =>
        /\ \A i \in 1..Len(Value) :
              calculateVarIntLength(Items64[i]) = LeastLength(Items64[i])
        /\ LET rest == AfterFirstVarint(Output)
           IN  BitsToNat(DecodeVarint(SubSeq(rest, 1, FirstVarintLength(rest))))
             = Sum([i \in 1..Len(Value) |-> LeastLength(Items64[i])])

\* C24 witness: emitUInt64(1, 2^56) has appended the tag and nine bytes, the
\* first value of the ninth width.
C24_Witness ==
  /\ Op = "emitUInt64" /\ Field = 1 /\ Value = OneHot(56, W64)
  /\ Output = <<8, 128, 128, 128, 128, 128, 128, 128, 128, 1>>

\* The rotation of the 64 bits of n to the left by one bit.
RotateLeft(n) == <<n[W64]>> \o SubSeq(n, 1, W64 - 1)

C26_VarIntLoopEnds ==
  (Op \in {"emitUInt64", "emitInt64"} /\ ValidField) =>
     LET R == emitVarIntRawLoop(NewEmitter, Value)
         bs == AfterFirstVarint(Output)
     IN  /\ ~Aborted /\ ~R.E.Aborted
         /\ R.Left
         /\ IsZero(R.Value)
         /\ R.BytesEmitted \in 1..10
         /\ bs = R.E.Output /\ Len(bs) = R.BytesEmitted
         /\ Len(bs) = 10 => bs[10] < 128

\* C26 witness: in a build with assertions emitInt64(1, -1) has appended the
\* tag and ten bytes, the last one 01.
C26_Witness ==
  /\ Op = "emitInt64" /\ Field = 1 /\ ~NDEBUG /\ ~Aborted /\ Value = Ones(W64, W64)
  /\ Output = <<8, 255, 255, 255, 255, 255, 255, 255, 255, 255, 1>>

\* ---------------------------------------------- 32-bit and 64-bit calls

\* The bytes that follow the tag in the sink.
Payload == AfterFirstVarint(Output)

\* The 32-bit ZigZag value (n << 1) ^ (n >> 31) of the 32-bit n.
RefZigZag32(n) ==
  LET shl == <<0>> \o SubSeq(n, 1, W32 - 1)
  IN  SubSeq([i \in 1..W32 |-> (shl[i] + n[W32]) % 2], 1, W32)

\* C27: for every signed 32-bit n, emitSInt32(f, n) appends the same bytes
\* as emitSInt64(f, n); its payload is the varint of the 32-bit ZigZag value
\* (n << 1) ^ (n >> 31) taken as an unsigned 32-bit number, at most 5 bytes
\* long; INT32_MIN gives FF FF FF FF 0F.
C27_SInt32 ==
  (Returned /\ ValidField /\ Op = "emitSInt32") =>
     /\ Output = Builder_emitSInt64(NewEmitter, Field, SignExtend(Value, W64)).Output
     /\ Payload = RefVarint(RefZigZag32(Value) \o Fill(W64 - W32, 0))
     /\ Len(Payload) <= 5
     /\ Value = OneHot(W32 - 1, W32) => Payload = <<255, 255, 255, 255, 15>>

\* C27 witness: emitSInt32(1, INT32_MIN) has appended 08 FF FF FF FF 0F.
C27_Witness ==
  /\ Op = "emitSInt32" /\ Field = 1 /\ Value = OneHot(W32 - 1, W32)
  /\ Output = <<8, 255, 255, 255, 255, 15>>

\* C28: for every signed 32-bit n, emitInt32(f, n) appends the same bytes as
\* emitInt64(f, n), and for every unsigned 32-bit n, emitUInt32(f, n) the
\* same bytes as emitUInt64(f, n); for a non-negative n the payload is at
\* most 5 bytes and emitInt32(f, n) appends what emitUInt32(f, n) appends.
C28_Int32AsInt64 ==
  /\ (Returned /\ ValidField /\ Op = "emitInt32") =>
        /\ Output = Builder_emitInt64(NewEmitter, Field, SignExtend(Value, W64)).Output
        /\ Value[W32] = 0 =>
             /\ Len(Payload) <= 5
             /\ Output = Builder_emitUInt32(NewEmitter, Field, Value).Output
  /\ (Returned /\ ValidField /\ Op = "emitUInt32") =>
        /\ Output = Builder_emitUInt64(NewEmitter, Field, Value \o Fill(W64 - W32, 0)).Output
        /\ Len(Payload) <= 5
        /\ Value[W32] = 0 => Output = Builder_emitInt32(NewEmitter, Field, Value).Output

\* C28 witness: emitUInt32(1, 2^32 - 1) has appended 08 FF FF FF FF 0F, five
\* bytes of payload.
C28_Witness ==
  /\ Op = "emitUInt32" /\ Field = 1 /\ Value = Ones(W32, W32)
  /\ Output = <<8, 255, 255, 255, 255, 15>>

\* C29: for every signed 32-bit n, emitSFixed32(f, n) appends the same bytes
\* as emitFixed32(f, n mod 2^32), and for every signed 64-bit n,
\* emitSFixed64(f, n) the same bytes as emitFixed64(f, n mod 2^64): the
\* payload is the two's complement representation, 4 (resp. 8) bytes, not
\* sign-extended and not shortened (least significant byte first on a host
\* that stores it so).
C29_SFixedAsFixed ==
  /\ (Returned /\ ValidField /\ Op = "emitSFixed32") =>
        /\ Output = Builder_emitFixed32(NewEmitter, Field, Value).Output
        /\ Len(Payload) = 4
        /\ ~BigEndian => Payload = LittleEndian(Value)
  /\ (Returned /\ ValidField /\ Op = "emitSFixed64") =>
        /\ Output = Builder_emitFixed64(NewEmitter, Field, Value).Output
        /\ Len(Payload) = 8
        /\ ~BigEndian => Payload = LittleEndian(Value)

\* C29 witness: emitSFixed32(1, -2) has appended 0D FE FF FF FF on a host
\* that stores the least significant byte first.
C29_Witness ==
  /\ Op = "emitSFixed32" /\ Field = 1 /\ ~BigEndian /\ Value = BitNot(Ones(1, W32))
  /\ Output = <<13, 254, 255, 255, 255>>

\* C30: for every field number f in [1, 536870911] and wire code w in
\* {0, 1, 2, 5}, the tag emitTag computes as (uint32(f) << 3) + w in unsigned
\* 32-bit arithmetic is (f << 3) | w computed without a width limit: no bit
\* of f is lost, the tag is below 2^32, and its varint is 1 to 5 bytes long.
C30_TagWidth ==
  (Returned /\ ValidField /\ Output # <<>>) =>
     LET t == SubSeq(Output, 1, FirstVarintLength(Output))
         tag == DecodeVarint(t) \o Fill(W64 + 3 - 7 * Len(t), 0)
     IN  /\ WireTypeOf(Op) \in {0, 1, 2, 5}
         /\ Len(t) \in 1..5
         /\ tag = RefTag(Field, WireTypeOf(Op))
         /\ \A j \in (W32 + 1)..Len(tag) : tag[j] = 0
         /\ BitsToNat(SubSeq(tag, 4, W32)) = Field
         /\ BitsToNat(SubSeq(tag, 1, 3)) = WireTypeOf(Op)

\* C30 witness: emitFixed32(536870911, 128) has appended the tag
\* FD FF FF FF 0F, which is 2^32 - 3, and then four bytes.
C30_Witness ==
  /\ Op = "emitFixed32" /\ Field = MaxField /\ ~BigEndian /\ Value = OneHot(7, W32)
  /\ Output = <<253, 255, 255, 255, 15, 128, 0, 0, 0>>

====
